---- MODULE Spec2Model ----
(***************************************************************************)
(* Model of the surmai expenses panel (ExpensesPanel.tsx) with its two     *)
(* queries, the flight form (FlightForm.tsx), the expense repository       *)
(* wrapper (lib/api/pocketbase/expenses.ts) and the expense normalizer     *)
(* (helper.ts: convertExpenses).                                           *)
(*                                                                         *)
(* Money values are integers in hundredths of a currency unit, conversion  *)
(* rates are integers in units of 1/RateDen.  An optional value (null or   *)
(* undefined in the source) is a sequence of length 0 or 1.                *)
(***************************************************************************)
EXTENDS Integers, Sequences, FiniteSets, TLC

VARIABLES
    \* ---- props and query results of ExpensesPanel
    listStale,          \* the listExpenses query is invalidated, refetch pending
    trip,               \* [id, budget]: budget is None or Some([value, currency])
    user,               \* None or Some(currencyCode)
    tripAttachments,    \* None (undefined) or Some(set of attachment ids)
    rawExpenses,        \* cached result of the ['listExpenses', trip.id] query
    rates,              \* cached result of the conversion rate query
    \* ---- useState of ExpensesPanel
    isModalOpen, selectedExpense, saving, sortBy, sortDirection,
    name, amount, currency, occurredOn, notes, category, files,
    existingAttachments,
    \* ---- the running onSave: position, captured render values, request
    savePc, sv, req,
    \* ---- handleDelete: open confirmation dialog, pending delete calls
    confirmFor, delPending,
    \* ---- the backend collections
    repo, attStore, nextId,
    \* ---- observations
    trace,              \* calls, notifications and completions, in order
    steps,              \* number of button clicks so far
    edits,              \* number of form field changes so far
    \* ---- rendering of one set of inputs (normalizer specification)
    rendered,
    \* ---- props of FlightForm
    transportation,     \* None or Some([id, expenseId, attachmentReferences]), a shared object
    expenseMap,         \* None (undefined) or Some(function from expense id to expense)
    exitingAttachments, \* None (undefined) or Some(sequence of attachment ids)
    \* ---- useState / useForm of FlightForm
    flightValues, flightFiles, flightSaving,
    \* ---- the running handleFormSubmit: position and local variables
    flightPc, fl,
    \* ---- the transportations collection
    transportations,
    \* ---- the query cache: data per query key, and the fetches in flight
    queryCache, fetching,
    \* ---- the flight number lookup of FlightForm: the argument the debounce
    \* timer holds, the getFlightRoute calls in flight, and the shown
    \* origin, destination and airline
    debounced, lookups, flightRoute

panelState == <<isModalOpen, selectedExpense, saving, name, amount, currency,
                occurredOn, notes, category, files, existingAttachments>>

formInput == <<isModalOpen, selectedExpense, name, amount, currency,
               occurredOn, notes, category, files, existingAttachments>>

vars == <<trip, user, tripAttachments, rawExpenses, rates, listStale,
          isModalOpen, selectedExpense, saving, sortBy, sortDirection,
          name, amount, currency, occurredOn, notes, category, files, existingAttachments,
          savePc, sv, req, confirmFor, delPending,
          repo, attStore, nextId, trace, steps, edits, rendered,
          transportation, expenseMap, exitingAttachments, flightValues, flightFiles,
          flightSaving, flightPc, fl, transportations, queryCache, fetching,
          debounced, lookups, flightRoute>>

lookupState == <<debounced, lookups, flightRoute>>

cacheState == <<queryCache, fetching>>

flightState == <<transportation, expenseMap, exitingAttachments, flightValues, flightFiles,
                 flightSaving, flightPc, fl, transportations>>

(***************************************************************************)
(* Bounds                                                                  *)
(***************************************************************************)
MaxSteps == 3

MaxEdits == 2

\* saves started per form while both forms are open
MaxSaves == 1

\* changes of the trip the panel is rendered with
MaxTripChanges == 2

(***************************************************************************)
(* Values                                                                  *)
(***************************************************************************)
None == <<>>

Some(x) == <<x>>

RateDen == 1000

DefaultCurrency == "USD"

OtherCategory == "other"

Money(v, c) == [value |-> v, currency |-> c]

\* the text inputs the user types into the name field
NameInputs == {"", " A"}

\* the numbers CurrencyInput can hand to setAmount
AmountInputs == {0, -500, 1000}

CurrencyInputs == {"EUR"}

DateInputs == {Some(3)}

NotesInputs == {"n "}

CategoryInputs == {Some("food")}

FileInputs == {<<"f1">>}

trim(s) ==
    CASE s = " A" -> "A"
      [] s = "n " -> "n"
      [] s = " "  -> ""
      [] OTHER    -> s

\* lib/time.ts: a browser-local date re-labelled as UTC and back
UtcTag == 100

fakeAsUtcString(d) == d + UtcTag

convertSavedToBrowserDate(d) == d - UtcTag

SeqToSet(s) == {s[i] : i \in 1..Len(s)}

RECURSIVE SumSeq(_)
SumSeq(s) == IF s = <<>> THEN 0 ELSE Head(s) + SumSeq(Tail(s))

SelectSeqBy(s, S) == SelectSeq(s, LAMBDA x : x \in S)

(***************************************************************************)
(* Expense Normalizer (helper.ts, convertExpenses)                         *)
(***************************************************************************)
\* trip budget currency, else user currency, else the default code
targetCurrency(u, t) ==
    IF t.budget # None /\ t.budget[1].currency # ""
    THEN t.budget[1].currency
    ELSE IF u # None /\ u[1] # "" THEN u[1] ELSE DefaultCurrency

\* x * r / RateDen rounded to the nearest hundredth (Math.round: half up)
roundRate(x, r) == (2 * x * r + RateDen) \div (2 * RateDen)

findRate(rs, from, to) == {r \in rs : r.base = from /\ r.target = to}

convertCost(cost, target, rs) ==
    IF cost.currency = target
    THEN Some(cost)
    ELSE IF findRate(rs, cost.currency, target) = {}
         THEN None
         ELSE LET r == CHOOSE x \in findRate(rs, cost.currency, target) : TRUE
              IN  Some(Money(roundRate(cost.value, r.rate), target))

withConverted(e, cc) ==
    [id |-> e.id, name |-> e.name, cost |-> e.cost, occurredOn |-> e.occurredOn,
     notes |-> e.notes, category |-> e.category,
     attachmentReferences |-> e.attachmentReferences, convertedCost |-> cc]

convertExpenses(u, t, es, rs) ==
    [i \in 1..Len(es) |->
        withConverted(es[i], convertCost(es[i].cost, targetCurrency(u, t), rs))]

(***************************************************************************)
(* Render of ExpensesPanel: values derived from props, queries and state   *)
(***************************************************************************)
\* mutation: the trip is handed over without its budget
expensesOf_noBudget(u, t, raw, rs) == convertExpenses(u, [id |-> t.id, budget |-> None], raw, rs)

\* mutation: the rates are not handed to the normalizer
expensesOf_noRates(u, t, raw, rs) == convertExpenses(u, t, raw, {})

\* line 141; a list that is not loaded yet is the empty list
expensesOf(u, t, raw, rs) == convertExpenses(u, t, raw, rs)

expenses == expensesOf(user, trip, rawExpenses, rates)

\* exp.convertedCost?.value || 0
convertedValue(e) == IF e.convertedCost = None THEN 0 ELSE e.convertedCost[1].value

CategoryRank(c) ==
    CASE c = ""               -> 0
      [] c = "food"           -> 1
      [] c = "lodging"        -> 2
      [] c = "other"          -> 3
      [] c = "transportation" -> 4
      [] OTHER                -> 5

\* mutation: the sort direction is ignored
compareExpenses_ignoresDirection(a, b, by, dir) ==
    CASE by = Some("date")     -> a.occurredOn - b.occurredOn
      [] by = Some("category") -> CategoryRank(a.category) - CategoryRank(b.category)
      [] by = Some("amount")   -> convertedValue(a) - convertedValue(b)
      [] OTHER                 -> 0

\* the comparator of lines 271-290: negative, zero or positive
compareExpenses(a, b, by, dir) ==
    LET comparison ==
            CASE by = None           -> 0
              [] by = Some("date")     -> a.occurredOn - b.occurredOn
              [] by = Some("category") -> CategoryRank(a.category) - CategoryRank(b.category)
              [] by = Some("amount")   -> convertedValue(a) - convertedValue(b)
              [] OTHER                 -> 0
    IN  IF dir = "asc" THEN comparison ELSE 0 - comparison

\* Array.prototype.sort is stable: insert each element after the last
\* element that does not compare greater
RECURSIVE insertSorted(_, _, _, _)
insertSorted(s, e, by, dir) ==
    IF s = <<>> THEN <<e>>
    ELSE IF compareExpenses(s[Len(s)], e, by, dir) <= 0
         THEN Append(s, e)
         ELSE Append(insertSorted(SubSeq(s, 1, Len(s) - 1), e, by, dir), s[Len(s)])

RECURSIVE sortExpenses(_, _, _)
sortExpenses(s, by, dir) ==
    IF s = <<>> THEN <<>>
    ELSE insertSorted(sortExpenses(SubSeq(s, 1, Len(s) - 1), by, dir), s[Len(s)], by, dir)

sortedExpensesOf(es, by, dir) == sortExpenses(es, by, dir)

totalExpensesOf(ses) == SumSeq([i \in 1..Len(ses) |-> convertedValue(ses[i])])

\* one card per sorted expense; the amount row is rendered only when the
\* expense has a convertedCost, and shows the converted money
expenseCard(e) ==
    [id |-> e.id, name |-> e.name,
     category |-> IF e.category = "" THEN OtherCategory ELSE e.category,
     amountRow |-> IF e.convertedCost # None THEN Some(e.convertedCost[1]) ELSE None]

expenseCardsOf(ses) == [i \in 1..Len(ses) |-> expenseCard(ses[i])]

\* mutation: the user's currency is not among the requested codes
currencyCodesOf_noUser(u, t, raw) ==
    {IF t.budget # None /\ t.budget[1].currency # "" THEN t.budget[1].currency ELSE "USD"}
      \cup {IF raw[i].cost.currency # "" THEN raw[i].cost.currency ELSE "USD" : i \in 1..Len(raw)}

\* lines 130-135: the codes the conversion rates are requested for
currencyCodesOf(u, t, raw) ==
    {IF t.budget # None /\ t.budget[1].currency # "" THEN t.budget[1].currency ELSE "USD"}
      \cup {IF u # None /\ u[1] # "" THEN u[1] ELSE "USD"}
      \cup {IF raw[i].cost.currency # "" THEN raw[i].cost.currency ELSE "USD" : i \in 1..Len(raw)}

\* line 306
budgetCurrencyOf(t) ==
    IF t.budget # None /\ t.budget[1].currency # "" THEN t.budget[1].currency ELSE "USD"

\* line 312: exp.category || 'other'
categoryOf(e) == IF e.category # "" THEN e.category ELSE OtherCategory

\* mutation: the value replaces the sum of the category
addToCategory_overwrite(acc, cat, v) ==
    IF \E i \in 1..Len(acc) : acc[i].category = cat
    THEN [i \in 1..Len(acc) |->
             IF acc[i].category = cat THEN [category |-> cat, amount |-> v] ELSE acc[i]]
    ELSE Append(acc, [category |-> cat, amount |-> v])

\* one step of the reduce of lines 310-317: acc[cat] = (acc[cat] || 0) + value;
\* the keys of the object keep the order in which they were first set
addToCategory(acc, cat, v) ==
    IF \E i \in 1..Len(acc) : acc[i].category = cat
    THEN [i \in 1..Len(acc) |->
             IF acc[i].category = cat
             THEN [category |-> cat, amount |-> acc[i].amount + v]
             ELSE acc[i]]
    ELSE Append(acc, [category |-> cat, amount |-> v])

RECURSIVE categoryTotalsOf(_)
categoryTotalsOf(ses) ==
    IF ses = <<>> THEN <<>>
    ELSE addToCategory(categoryTotalsOf(SubSeq(ses, 1, Len(ses) - 1)),
                       categoryOf(ses[Len(ses)]), convertedValue(ses[Len(ses)]))

\* mutation: the groups are ordered by ascending amount
compareCategories_asc(a, b) == a.amount - b.amount

\* line 319: ([, a], [, b]) => b - a
compareCategories(a, b) == b.amount - a.amount

RECURSIVE insertCategory(_, _)
insertCategory(s, c) ==
    IF s = <<>> THEN <<c>>
    ELSE IF compareCategories(s[Len(s)], c) <= 0
         THEN Append(s, c)
         ELSE Append(insertCategory(SubSeq(s, 1, Len(s) - 1), c), s[Len(s)])

\* Object.entries(categoryTotals).sort(...): a stable sort of the entries
RECURSIVE sortedCategoriesOf(_)
sortedCategoriesOf(ct) ==
    IF ct = <<>> THEN <<>>
    ELSE insertCategory(sortedCategoriesOf(SubSeq(ct, 1, Len(ct) - 1)), ct[Len(ct)])

(***************************************************************************)
(* Expense repository (lib/api/pocketbase/expenses.ts)                     *)
(***************************************************************************)
PayloadFields == {"name", "trip", "cost", "occurredOn", "notes", "category",
                  "attachmentReferences"}

\* a record that carries only the fields that are not undefined
carried(full, defined) == [f \in defined |-> full[f]]

RECURSIVE listSorted(_, _)
listSorted(r, ids) ==
    IF ids = {} THEN <<>>
    ELSE LET first == CHOOSE i \in ids : \A j \in ids \ {i} :
                          \/ r[i].occurredOn > r[j].occurredOn
                          \/ r[i].occurredOn = r[j].occurredOn /\ i > j
         IN  <<first>> \o listSorted(r, ids \ {first})

\* getList(filter trip, sort -occurredOn,-created), dates made browser-local
listExpenses(r, tripId) ==
    LET items == listSorted(r, {i \in DOMAIN r : r[i].trip = tripId})
    IN  [k \in 1..Len(items) |->
            [id |-> items[k], name |-> r[items[k]].name, cost |-> r[items[k]].cost,
             occurredOn |-> IF r[items[k]].occurredOn # 0
                            THEN convertSavedToBrowserDate(r[items[k]].occurredOn)
                            ELSE r[items[k]].occurredOn,
             notes |-> r[items[k]].notes, category |-> r[items[k]].category,
             attachmentReferences |-> r[items[k]].attachmentReferences]]

\* expenses.create(payload): fields that are not sent take the empty value
createExpense(r, id, payload) ==
    LET blank == [name |-> "", trip |-> 0, cost |-> Money(0, ""), occurredOn |-> 0,
                  notes |-> "", category |-> "", attachmentReferences |-> <<>>]
    IN  (id :> [f \in PayloadFields |->
                   IF f \in DOMAIN payload THEN payload[f] ELSE blank[f]]) @@ r

\* mutation: the record is replaced by the payload, fields not sent are emptied
updateExpense_replace(r, id, payload) ==
    LET blank == [name |-> "", trip |-> 0, cost |-> Money(0, ""), occurredOn |-> 0,
                  notes |-> "", category |-> "", attachmentReferences |-> <<>>]
    IN  [r EXCEPT ![id] = [f \in PayloadFields |->
                              IF f \in DOMAIN payload THEN payload[f] ELSE blank[f]]]

\* expenses.update(id, payload): only the fields sent are replaced
updateExpense(r, id, payload) ==
    [r EXCEPT ![id] = [f \in PayloadFields |->
                          IF f \in DOMAIN payload THEN payload[f] ELSE @[f]]]

deleteExpense(r, id) == [i \in DOMAIN r \ {id} |-> r[i]]

\* uploadAttachments(tripId, files): one stored attachment per file
uploadAttachments(store, fs) == store \o fs

uploadedIds(store, fs) == [k \in 1..Len(fs) |-> Len(store) + k]

(***************************************************************************)
(* ExpensesPanel: form state                                               *)
(***************************************************************************)
\* JavaScript truthiness of the amount state: '' and 0 are falsy
truthyAmount(a) == a # None /\ a[1] # 0

initialCurrency(u, t) == targetCurrency(u, t)

UserStep == steps < MaxSteps /\ steps' = steps + 1 /\ edits' = edits

EditStep == edits < MaxEdits /\ edits' = edits + 1 /\ steps' = steps

resetForm ==
    /\ name' = ""
    /\ amount' = None
    /\ currency' = initialCurrency(user, trip)
    /\ occurredOn' = None
    /\ notes' = ""
    /\ category' = None
    /\ files' = <<>>
    /\ existingAttachments' = <<>>

closeModal ==
    /\ isModalOpen' = FALSE
    /\ selectedExpense' = None
    /\ resetForm

backend == <<repo, attStore, nextId>>

counters == <<steps, edits>>

queries == <<trip, user, tripAttachments, rawExpenses, rates, listStale>>

saveProc == <<savePc, sv, req>>

delProc == <<confirmFor, delPending>>

sortState == <<sortBy, sortDirection>>

OpenModalForAdd ==
    /\ UserStep
    /\ ~isModalOpen /\ confirmFor = None
    /\ resetForm
    /\ selectedExpense' = None
    /\ isModalOpen' = TRUE
    /\ UNCHANGED <<queries, saving, sortState, saveProc, delProc, backend, trace, rendered, flightState, lookupState, cacheState>>

\* mutation: the form is filled from the converted cost
editAmount_converted(expense) ==
    IF convertedValue(expense) # 0 THEN Some(convertedValue(expense)) ELSE None

editAmount(expense) == IF expense.cost.value # 0 THEN Some(expense.cost.value) ELSE None

editCurrency(expense) ==
    IF expense.cost.currency # "" THEN expense.cost.currency
    ELSE initialCurrency(user, trip)

editAttachments(expense, atts) ==
    SelectSeqBy(IF atts = None THEN <<>> ELSE atts[1], SeqToSet(expense.attachmentReferences))

OpenModalForEdit(expense) ==
    /\ UserStep
    /\ ~isModalOpen /\ confirmFor = None
    /\ name' = expense.name
    /\ amount' = editAmount(expense)
    /\ currency' = editCurrency(expense)
    /\ occurredOn' = IF expense.occurredOn # 0 THEN Some(expense.occurredOn) ELSE None
    /\ notes' = expense.notes
    /\ category' = IF expense.category # "" THEN Some(expense.category) ELSE None
    /\ existingAttachments' = editAttachments(expense, tripAttachments)
    /\ selectedExpense' = Some(expense)
    /\ isModalOpen' = TRUE
    /\ UNCHANGED <<queries, saving, sortState, files, saveProc, delProc, backend, trace, rendered, flightState, lookupState, cacheState>>

CloseModal ==
    /\ UserStep
    /\ isModalOpen /\ confirmFor = None
    /\ closeModal
    /\ UNCHANGED <<queries, saving, sortState, saveProc, delProc, backend, trace, rendered, flightState, lookupState, cacheState>>

FormOpen == EditStep /\ isModalOpen /\ confirmFor = None

SetName(v) ==
    /\ FormOpen
    /\ name' = v
    /\ UNCHANGED <<queries, isModalOpen, selectedExpense, saving, sortState, amount, currency,
                   occurredOn, notes, category, files, existingAttachments,
                   saveProc, delProc, backend, trace, rendered, flightState, lookupState, cacheState>>

SetAmount(v) ==
    /\ FormOpen
    /\ amount' = Some(v)
    /\ UNCHANGED <<queries, isModalOpen, selectedExpense, saving, sortState, name, currency,
                   occurredOn, notes, category, files, existingAttachments,
                   saveProc, delProc, backend, trace, rendered, flightState, lookupState, cacheState>>

SetCurrency(v) ==
    /\ FormOpen
    /\ currency' = IF v # None THEN v[1]
                   ELSE IF user # None /\ user[1] # "" THEN user[1] ELSE DefaultCurrency
    /\ UNCHANGED <<queries, isModalOpen, selectedExpense, saving, sortState, name, amount,
                   occurredOn, notes, category, files, existingAttachments,
                   saveProc, delProc, backend, trace, rendered, flightState, lookupState, cacheState>>

SetOccurredOn(v) ==
    /\ FormOpen
    /\ occurredOn' = v
    /\ UNCHANGED <<queries, isModalOpen, selectedExpense, saving, sortState, name, amount,
                   currency, notes, category, files, existingAttachments,
                   saveProc, delProc, backend, trace, rendered, flightState, lookupState, cacheState>>

SetNotes(v) ==
    /\ FormOpen
    /\ notes' = v
    /\ UNCHANGED <<queries, isModalOpen, selectedExpense, saving, sortState, name, amount,
                   currency, occurredOn, category, files, existingAttachments,
                   saveProc, delProc, backend, trace, rendered, flightState, lookupState, cacheState>>

SetCategory(v) ==
    /\ FormOpen
    /\ category' = v
    /\ UNCHANGED <<queries, isModalOpen, selectedExpense, saving, sortState, name, amount,
                   currency, occurredOn, notes, files, existingAttachments,
                   saveProc, delProc, backend, trace, rendered, flightState, lookupState, cacheState>>

SetFiles(v) ==
    /\ FormOpen
    /\ files' = v
    /\ UNCHANGED <<queries, isModalOpen, selectedExpense, saving, sortState, name, amount,
                   currency, occurredOn, notes, category, existingAttachments,
                   saveProc, delProc, backend, trace, rendered, flightState, lookupState, cacheState>>

(***************************************************************************)
(* ExpensesPanel.onSave                                                    *)
(***************************************************************************)
Ev(op, id) == [op |-> op, id |-> id]

\* line 182: if (!name || !amount || !currency) return;
saveGuard(n, a, c) == n # "" /\ truthyAmount(a) /\ c # ""

\* line 798: disabled={!name || !amount || !currency}
saveDisabled(n, a, c) == n = "" \/ ~truthyAmount(a) \/ c = ""

\* the values of the render that the running onSave closes over
captured ==
    [name |-> name, amount |-> amount, currency |-> currency, occurredOn |-> occurredOn,
     notes |-> notes, category |-> category, files |-> files,
     existingAttachments |-> existingAttachments, selectedExpense |-> selectedExpense]

\* mutation: the ids of the attachments the expense already had are dropped
allAttachmentIds_newOnly(existing, newIds) == newIds

allAttachmentIds(existing, newIds) == existing \o newIds

\* lines 191-199
buildPayload(c, t, newIds) ==
    carried([name |-> trim(c.name),
             trip |-> t.id,
             cost |-> Money(c.amount[1], c.currency),
             occurredOn |-> IF c.occurredOn # None THEN fakeAsUtcString(c.occurredOn[1]) ELSE 0,
             notes |-> trim(c.notes),
             category |-> IF c.category # None THEN c.category[1] ELSE "",
             attachmentReferences |-> allAttachmentIds(c.existingAttachments, newIds)],
            {"name", "trip", "cost", "attachmentReferences"}
              \cup (IF c.occurredOn # None THEN {"occurredOn"} ELSE {})
              \cup (IF trim(c.notes) # "" THEN {"notes"} ELSE {})
              \cup (IF c.category # None /\ c.category[1] # "" THEN {"category"} ELSE {}))

\* lines 201-207
buildRequest(c, payload) ==
    IF c.selectedExpense # None
    THEN [op |-> "updateExpense", id |-> c.selectedExpense[1].id, payload |-> payload]
    ELSE [op |-> "createExpense", id |-> 0, payload |-> payload]

\* the Save button is clickable while the modal is open and not loading
SaveClickable == isModalOpen /\ confirmFor = None /\ ~saving /\ savePc = "idle"

OnSave ==
    /\ UserStep
    /\ SaveClickable
    /\ saveGuard(name, amount, currency)
    /\ saving' = TRUE
    /\ sv' = Some(captured)
    /\ savePc' = "upload"
    /\ trace' = trace \o <<Ev("onSave", 0), Ev("uploadAttachments", Len(files))>>
    /\ UNCHANGED <<queries, formInput, sortState, req, delProc, backend, rendered, flightState, lookupState, cacheState>>

OnSaveRejected ==
    /\ UserStep
    /\ SaveClickable
    /\ ~saveGuard(name, amount, currency)
    /\ trace' = Append(trace, Ev("onSave", 0))
    /\ UNCHANGED <<lookupState, cacheState, queries, panelState, sortState, saveProc, delProc, backend, rendered, flightState, cacheState>>

\* mutation: the modal is closed when the save has failed
saveFailed_closes(why) ==
    /\ trace' = trace \o <<Ev(why, 0), Ev("showErrorNotification", 0)>>
    /\ saving' = FALSE
    /\ savePc' = "idle"
    /\ sv' = None
    /\ req' = None
    /\ closeModal
    /\ UNCHANGED <<sortState, delProc, rendered, flightState, lookupState, cacheState>>

\* catch and finally of onSave: one notification, saving off, form untouched
saveFailed(why) ==
    /\ trace' = trace \o <<Ev(why, 0), Ev("showErrorNotification", 0)>>
    /\ saving' = FALSE
    /\ savePc' = "idle"
    /\ sv' = None
    /\ req' = None
    /\ UNCHANGED <<formInput, sortState, delProc, rendered, flightState, lookupState, cacheState>>

UploadResolve ==
    /\ savePc = "upload"
    /\ attStore' = uploadAttachments(attStore, sv[1].files)
    /\ LET r == buildRequest(sv[1],
                    buildPayload(sv[1], trip, uploadedIds(attStore, sv[1].files)))
       IN  /\ req' = Some(r)
           /\ trace' = trace \o <<Ev("uploadResolved", Len(sv[1].files)), Ev(r.op, r.id)>>
    /\ savePc' = "mutate"
    /\ UNCHANGED <<queries, panelState, sortState, sv, delProc, repo, nextId, counters, rendered, flightState, lookupState, cacheState>>

UploadReject ==
    /\ savePc = "upload"
    /\ saveFailed("uploadRejected")
    /\ UNCHANGED <<queries, backend, counters>>

MutationResolve ==
    /\ savePc = "mutate"
    /\ \/ /\ req[1].op = "updateExpense"
          /\ req[1].id \in DOMAIN repo
          /\ repo' = updateExpense(repo, req[1].id, req[1].payload)
          /\ nextId' = nextId
       \/ /\ req[1].op = "createExpense"
          /\ repo' = createExpense(repo, nextId, req[1].payload)
          /\ nextId' = nextId + 1
    /\ savePc' = "inval1"
    /\ trace' = trace \o <<Ev("mutationResolved", req[1].id),
                           Ev("invalidateQueries_listExpenses", trip.id)>>
    /\ UNCHANGED <<queries, panelState, sortState, sv, req, delProc, attStore, counters, rendered, flightState, lookupState, cacheState>>

MutationReject ==
    /\ savePc = "mutate"
    /\ saveFailed("mutationRejected")
    /\ UNCHANGED <<queries, backend, counters>>

\* mutation: the modal is closed without invalidating the trip attachments
InvalidateListResolve_closes ==
    /\ savePc = "inval1"
    /\ rawExpenses' = listExpenses(repo, trip.id)
    /\ listStale' = FALSE
    /\ closeModal
    /\ saving' = FALSE
    /\ savePc' = "idle"
    /\ sv' = None
    /\ req' = None
    /\ trace' = Append(trace, Ev("closeModal", 0))
    /\ UNCHANGED <<trip, user, tripAttachments, rates, sortState, delProc, backend,
                   counters, rendered, flightState, lookupState, cacheState>>

\* invalidateQueries resolves when the refetch of the active query is done
InvalidateListResolve ==
    /\ savePc = "inval1"
    /\ rawExpenses' = listExpenses(repo, trip.id)
    /\ listStale' = FALSE
    /\ savePc' = "inval2"
    /\ trace' = Append(trace, Ev("invalidateQueries_getTripAttachments", trip.id))
    /\ UNCHANGED <<trip, user, tripAttachments, rates, panelState, sortState, sv, req,
                   delProc, backend, counters, rendered, flightState, lookupState, cacheState>>

InvalidateListReject ==
    /\ savePc = "inval1"
    /\ saveFailed("invalidateRejected")
    /\ UNCHANGED <<queries, backend, counters>>

InvalidateAttachmentsResolve ==
    /\ savePc = "inval2"
    /\ tripAttachments' = Some([k \in 1..Len(attStore) |-> k])
    /\ closeModal
    /\ saving' = FALSE
    /\ savePc' = "idle"
    /\ sv' = None
    /\ req' = None
    /\ trace' = Append(trace, Ev("closeModal", 0))
    /\ UNCHANGED <<trip, user, rawExpenses, rates, listStale, sortState, delProc, backend,
                   counters, rendered, flightState, lookupState, cacheState>>

InvalidateAttachmentsReject ==
    /\ savePc = "inval2"
    /\ saveFailed("invalidateRejected")
    /\ UNCHANGED <<queries, backend, counters>>

(***************************************************************************)
(* ExpensesPanel.handleDelete and the removeExpense mutation               *)
(***************************************************************************)
\* mutation: the delete call is issued without asking
HandleDelete_noConfirm ==
    /\ UserStep
    /\ isModalOpen /\ confirmFor = None
    /\ selectedExpense # None
    /\ delPending' = Append(delPending, selectedExpense[1].id)
    /\ trace' = trace \o <<Ev("handleDelete", selectedExpense[1].id),
                           Ev("deleteExpense", selectedExpense[1].id)>>
    /\ UNCHANGED <<queries, panelState, sortState, saveProc, confirmFor, backend, rendered, flightState, lookupState, cacheState>>

HandleDelete ==
    /\ UserStep
    /\ isModalOpen /\ confirmFor = None
    /\ selectedExpense # None
    /\ confirmFor' = selectedExpense
    /\ trace' = Append(trace, Ev("handleDelete", selectedExpense[1].id))
    /\ UNCHANGED <<queries, panelState, sortState, saveProc, delPending, backend, rendered, flightState, lookupState, cacheState>>

HandleDeleteNoSelection ==
    /\ UserStep
    /\ isModalOpen /\ confirmFor = None
    /\ selectedExpense = None
    /\ trace' = Append(trace, Ev("handleDelete", 0))
    /\ UNCHANGED <<lookupState, cacheState, queries, panelState, sortState, saveProc, delProc, backend, rendered, flightState, cacheState>>

\* onConfirm: removeExpense(id) starts the mutation and returns at once
ConfirmDelete ==
    /\ UserStep
    /\ confirmFor # None
    /\ delPending' = Append(delPending, confirmFor[1].id)
    /\ trace' = trace \o <<Ev("confirm", confirmFor[1].id),
                           Ev("deleteExpense", confirmFor[1].id),
                           Ev("showDeleteNotification", confirmFor[1].id),
                           Ev("closeModal", 0)>>
    /\ closeModal
    /\ confirmFor' = None
    /\ UNCHANGED <<queries, saving, sortState, saveProc, backend, rendered, flightState, lookupState, cacheState>>

CancelDelete ==
    /\ UserStep
    /\ confirmFor # None
    /\ confirmFor' = None
    /\ trace' = Append(trace, Ev("cancel", confirmFor[1].id))
    /\ UNCHANGED <<queries, panelState, sortState, saveProc, delPending, backend, rendered, flightState, lookupState, cacheState>>

removeAt(s, k) == SubSeq(s, 1, k - 1) \o SubSeq(s, k + 1, Len(s))

\* mutationFn resolved; onSuccess invalidates the expense list
DeleteResolve(k) ==
    /\ k \in 1..Len(delPending)
    /\ delPending[k] \in DOMAIN repo
    /\ repo' = deleteExpense(repo, delPending[k])
    /\ delPending' = removeAt(delPending, k)
    /\ listStale' = TRUE
    /\ trace' = trace \o <<Ev("deleteResolved", delPending[k]),
                           Ev("invalidateQueries_listExpenses", trip.id)>>
    /\ UNCHANGED <<trip, user, tripAttachments, rawExpenses, rates, panelState, sortState,
                   saveProc, confirmFor, attStore, nextId, counters, rendered, flightState, lookupState, cacheState>>

\* mutationFn rejected: mutate() swallows the error, no onError is given
DeleteReject(k) ==
    /\ k \in 1..Len(delPending)
    /\ delPending' = removeAt(delPending, k)
    /\ trace' = Append(trace, Ev("deleteRejected", delPending[k]))
    /\ UNCHANGED <<queries, panelState, sortState, saveProc, confirmFor, backend, counters, rendered, flightState, lookupState, cacheState>>

\* the refetch of an invalidated list query
RefetchList ==
    /\ listStale
    /\ rawExpenses' = listExpenses(repo, trip.id)
    /\ listStale' = FALSE
    /\ UNCHANGED <<trip, user, tripAttachments, rates, panelState, sortState, saveProc,
                   delProc, backend, trace, counters, rendered, flightState, lookupState, cacheState>>

(***************************************************************************)
(* Environment of the panel                                                *)
(***************************************************************************)
\* another client of the repository deletes the expense (FlightForm does,
\* when the cost of a flight is cleared)
ConcurrentRemove(id) ==
    /\ id \in DOMAIN repo
    /\ repo' = deleteExpense(repo, id)
    /\ UNCHANGED <<lookupState, cacheState, queries, panelState, sortState, saveProc, delProc, attStore, nextId,
                   trace, counters, rendered, flightState, lookupState, cacheState>>

RateTables == { {}, {[base |-> "USD", target |-> "EUR", rate |-> 900]} }

\* the conversion rate query resolves with other rates
RatesChange(rs) ==
    /\ rs # rates
    /\ rates' = rs
    /\ UNCHANGED <<trip, user, tripAttachments, rawExpenses, listStale, panelState, sortState,
                   saveProc, delProc, backend, trace, counters, rendered, flightState, lookupState, cacheState>>

(***************************************************************************)
(* Specification of the panel                                              *)
(***************************************************************************)
\* the query cache is not looked at: the query results are given
cacheUnobserved ==
    /\ queryCache = <<>>
    /\ fetching = {}

\* no flight form is shown
flightUnmounted ==
    /\ transportation = None
    /\ expenseMap = None
    /\ exitingAttachments = None
    /\ flightValues = [cost |-> None, currencyCode |-> "", departureTime |-> 0,
                       origin |-> "", destination |-> ""]
    /\ flightFiles = <<>>
    /\ flightSaving = FALSE
    /\ flightPc = "unmounted"
    /\ fl = None
    /\ transportations = <<>>
    /\ debounced = None
    /\ lookups = <<>>
    /\ flightRoute = [origin |-> "", destination |-> "", airline |-> ""]

SeedRepo ==
    (1 :> [name |-> "Hotel", trip |-> 1, cost |-> Money(1005, "USD"), occurredOn |-> 0,
           notes |-> "", category |-> "lodging", attachmentReferences |-> <<1>>])

Init ==
    /\ trip = [id |-> 1, budget |-> Some(Money(50000, "EUR"))]
    /\ user = Some("USD")
    /\ repo = SeedRepo
    /\ attStore = <<"r1">>
    /\ nextId = 2
    /\ tripAttachments \in {None, Some(<<1>>)}
    /\ rawExpenses = listExpenses(repo, trip.id)
    /\ listStale = FALSE
    /\ rates = {}
    /\ isModalOpen = FALSE
    /\ selectedExpense = None
    /\ saving = FALSE
    /\ sortBy = None
    /\ sortDirection = "asc"
    /\ name = ""
    /\ amount = None
    /\ currency = initialCurrency(user, trip)
    /\ occurredOn = None
    /\ notes = ""
    /\ category = None
    /\ files = <<>>
    /\ existingAttachments = <<>>
    /\ savePc = "idle"
    /\ sv = None
    /\ req = None
    /\ confirmFor = None
    /\ delPending = <<>>
    /\ trace = <<>>
    /\ steps = 0
    /\ edits = 0
    /\ rendered = None
    /\ flightUnmounted
    /\ cacheUnobserved

Next ==
    \/ OpenModalForAdd
    \/ \E i \in 1..Len(expenses) : OpenModalForEdit(expenses[i])
    \/ CloseModal
    \/ \E v \in NameInputs : SetName(v)
    \/ \E v \in AmountInputs : SetAmount(v)
    \/ \E v \in {None} \cup {Some(c) : c \in CurrencyInputs} : SetCurrency(v)
    \/ \E v \in DateInputs : SetOccurredOn(v)
    \/ \E v \in NotesInputs : SetNotes(v)
    \/ \E v \in CategoryInputs : SetCategory(v)
    \/ \E v \in FileInputs : SetFiles(v)
    \/ OnSave
    \/ OnSaveRejected
    \/ UploadResolve
    \/ UploadReject
    \/ MutationResolve
    \/ MutationReject
    \/ InvalidateListResolve
    \/ InvalidateListReject
    \/ InvalidateAttachmentsResolve
    \/ InvalidateAttachmentsReject
    \/ HandleDelete
    \/ HandleDeleteNoSelection
    \/ ConfirmDelete
    \/ CancelDelete
    \/ \E k \in 1..Len(delPending) : DeleteResolve(k)
    \/ \E k \in 1..Len(delPending) : DeleteReject(k)
    \/ RefetchList
    \/ \E id \in DOMAIN repo : ConcurrentRemove(id)
    \/ \E rs \in RateTables : RatesChange(rs)

Spec == Init /\ [][Next]_vars

(***************************************************************************)
(* Specification of the render: the normalizer and the derived values for  *)
(* bounded props and query results.  Every change of an input re-renders.  *)
(***************************************************************************)
MaxExpenses == 3

renderOf(u, t, raw, rs, by, dir) ==
    LET es  == expensesOf(u, t, raw, rs)
        ses == sortedExpensesOf(es, by, dir)
    IN  [expenses       |-> es,
         sortedExpenses |-> ses,
         totalExpenses  |-> totalExpensesOf(ses),
         expenseCards   |-> expenseCardsOf(ses),
         currencyCodes  |-> currencyCodesOf(u, t, raw),
         budgetCurrency |-> budgetCurrencyOf(t),
         categoryTotals |-> categoryTotalsOf(ses),
         sortedCategories |-> sortedCategoriesOf(categoryTotalsOf(ses))]

ListedExpense(i, v, c, cat, d) ==
    [id |-> i, name |-> "x", cost |-> Money(v, c), occurredOn |-> d, notes |-> "",
     category |-> cat, attachmentReferences |-> <<>>]

ExpensePool ==
    { ListedExpense(1, 10000, "USD", "food", 3),
      ListedExpense(2, 5000, "EUR", "", 0),
      ListedExpense(3, 3000, "JPY", "lodging", 5),
      ListedExpense(4, 1005, "USD", "food", 3) }

RECURSIVE ListsOver(_, _)
ListsOver(S, n) ==
    IF n = 0 THEN {<<>>}
    ELSE {<<>>} \cup UNION {{<<e>> \o l : l \in ListsOver(S \ {e}, n - 1)} : e \in S}

RatePool ==
    { [base |-> "USD", target |-> "EUR", rate |-> 900],
      [base |-> "JPY", target |-> "EUR", rate |-> 6],
      [base |-> "EUR", target |-> "USD", rate |-> 1111] }

TripInputs ==
    { [id |-> 1, budget |-> None],
      [id |-> 1, budget |-> Some(Money(50000, "EUR"))],
      [id |-> 1, budget |-> Some(Money(0, "USD"))] }

UserInputs == {None, Some("EUR"), Some("JPY")}

SortInputs == {None, Some("date"), Some("category"), Some("amount")}

panelIdle ==
    /\ tripAttachments = None
    /\ listStale = FALSE
    /\ isModalOpen = FALSE
    /\ selectedExpense = None
    /\ saving = FALSE
    /\ name = ""
    /\ amount = None
    /\ currency = initialCurrency(user, trip)
    /\ occurredOn = None
    /\ notes = ""
    /\ category = None
    /\ files = <<>>
    /\ existingAttachments = <<>>
    /\ savePc = "idle"
    /\ sv = None
    /\ req = None
    /\ confirmFor = None
    /\ delPending = <<>>
    /\ trace = <<>>
    /\ steps = 0
    /\ edits = 0
    /\ flightUnmounted

InitRender ==
    /\ trip \in TripInputs
    /\ user \in UserInputs
    /\ rawExpenses \in ListsOver(ExpensePool, MaxExpenses)
    /\ rates = {}
    /\ sortBy = None
    /\ sortDirection = "asc"
    /\ panelIdle
    /\ repo = <<>>
    /\ attStore = <<>>
    /\ nextId = 1
    /\ cacheUnobserved
    /\ rendered = Some(renderOf(user, trip, rawExpenses, rates, sortBy, sortDirection))

\* the conversion rate query resolves
RatesResolve(rs) ==
    /\ rs # rates
    /\ rates' = rs
    /\ rendered' = Some(renderOf(user, trip, rawExpenses, rs, sortBy, sortDirection))
    /\ UNCHANGED <<trip, user, tripAttachments, rawExpenses, listStale, panelState, sortState,
                   saveProc, delProc, backend, trace, counters, flightState, lookupState, cacheState>>

\* onChange of the sort Select, lines 406-415
SelectSort(by, dir) ==
    /\ <<by, dir>> # <<sortBy, sortDirection>>
    /\ sortBy' = by
    /\ sortDirection' = IF by = None THEN "asc" ELSE dir
    /\ rendered' = Some(renderOf(user, trip, rawExpenses, rates, sortBy', sortDirection'))
    /\ UNCHANGED <<queries, panelState, saveProc, delProc, backend, trace, counters, flightState, lookupState, cacheState>>

NextRender ==
    \/ \E rs \in SUBSET RatePool : RatesResolve(rs)
    \/ \E by \in SortInputs, dir \in {"asc", "desc"} : SelectSort(by, dir)

SpecRender == InitRender /\ [][NextRender]_vars

(***************************************************************************)
(* Transportation repository (lib/api: updateTransportation,               *)
(* createTransportationEntry)                                              *)
(***************************************************************************)
TransportationFields == {"type", "cost", "departureTime", "trip", "attachmentReferences",
                         "expenseId"}

\* transportations.update(id, payload): only the fields sent are replaced
updateTransportation(r, id, payload) ==
    [r EXCEPT ![id] = [f \in TransportationFields |->
                          IF f \in DOMAIN payload THEN payload[f] ELSE @[f]]]

\* transportations.create(payload): fields that are not sent take the empty value
createTransportationEntry(r, id, payload) ==
    LET blank == [type |-> "", cost |-> [value |-> None, currency |-> ""], departureTime |-> 0,
                  trip |-> 0, attachmentReferences |-> <<>>, expenseId |-> None]
    IN  (id :> [f \in TransportationFields |->
                   IF f \in DOMAIN payload THEN payload[f] ELSE blank[f]]) @@ r

(***************************************************************************)
(* FlightForm.handleFormSubmit                                             *)
(***************************************************************************)
FlightEv(op, id) == [op |-> op, id |-> id, by |-> "FlightForm"]

FlightCostInputs == {None, Some(0), Some(30000)}

FlightFileInputs == {<<"g1">>}

\* lines 96-110: the initial values of the form
initialFlightValues(tr, map, u) ==
    LET expense == IF tr # None /\ tr[1].expenseId # None /\ map # None
                      /\ tr[1].expenseId[1] \in DOMAIN map[1]
                   THEN Some(map[1][tr[1].expenseId[1]]) ELSE None
    IN  [cost |-> IF expense # None /\ expense[1].cost.value # 0
                  THEN Some(expense[1].cost.value) ELSE None,
         currencyCode |-> IF expense # None /\ expense[1].cost.currency # ""
                          THEN expense[1].cost.currency
                          ELSE IF u # None /\ u[1] # "" THEN u[1] ELSE DefaultCurrency,
         departureTime |-> 3,
         origin |-> "AAA",
         destination |-> "BBB"]

\* mutation: the linked id is kept whatever the map holds
linkedExpenseId_noCheck(tr, map) == IF tr # None THEN tr[1].expenseId ELSE None

\* lines 59-63: the origin, destination and airline states
initialFlightRoute(tr, values) ==
    [origin |-> values.origin, destination |-> values.destination,
     airline |-> IF tr # None THEN "AL0" ELSE ""]

\* lines 123-128: the linked id is dropped when a given map does not hold it
linkedExpenseId(tr, map) ==
    LET id == IF tr # None THEN tr[1].expenseId ELSE None
    IN  IF id # None /\ map # None /\ id[1] \notin DOMAIN map[1] THEN None ELSE id

\* line 130: values.cost && values.cost > 0
hasCost(values) == values.cost # None /\ values.cost[1] > 0

\* line 143
flightName(values) ==
    IF values.origin = "AAA" /\ values.destination = "BBB"
    THEN "Flight: AAA to BBB" ELSE "Flight: ? to ?"

\* lines 131-159: the expense call of one submit
expenseCall(values, expenseId, t) ==
    IF hasCost(values)
    THEN IF expenseId # None
         THEN [op |-> "updateExpense", id |-> expenseId[1],
               payload |-> [cost |-> Money(values.cost[1], values.currencyCode)]]
         ELSE [op |-> "createExpense", id |-> 0,
               payload |-> [name |-> flightName(values),
                            trip |-> t.id,
                            cost |-> Money(values.cost[1], values.currencyCode),
                            occurredOn |-> fakeAsUtcString(values.departureTime),
                            category |-> "transportation"]]
    ELSE IF expenseId # None
         THEN [op |-> "deleteExpense", id |-> expenseId[1]]
         ELSE [op |-> "none", id |-> 0]

\* lines 161-180
transportationPayload(values, t) ==
    [type |-> "flight",
     cost |-> [value |-> values.cost, currency |-> values.currencyCode],
     departureTime |-> fakeAsUtcString(values.departureTime),
     trip |-> t.id]

\* lines 182-194: the call that writes the transportation
transportationWrite(tr, values, t, newIds, expenseId) ==
    IF tr # None
    THEN [op |-> "updateTransportation", id |-> tr[1].id,
          payload |-> transportationPayload(values, t)]
    ELSE [op |-> "createTransportationEntry", id |-> 0,
          payload |-> IF expenseId # None
                      THEN transportationPayload(values, t)
                             @@ [attachmentReferences |-> newIds, expenseId |-> expenseId]
                      ELSE transportationPayload(values, t)
                             @@ [attachmentReferences |-> newIds]]

\* lines 183-187: the assignments to the transportation object of the props
assignedTransportation(tr, exiting, newIds, expenseId) ==
    IF tr # None
    THEN Some([tr[1] EXCEPT !.attachmentReferences =
                                (IF exiting # None THEN exiting[1] ELSE <<>>) \o newIds,
                            !.expenseId = expenseId])
    ELSE tr

FlightFormOpen == flightPc \notin {"unmounted", "closed"}

FlightSetCost(v) ==
    /\ EditStep
    /\ FlightFormOpen
    /\ v # flightValues.cost
    /\ flightValues' = [flightValues EXCEPT !.cost = v]
    /\ UNCHANGED <<lookupState, cacheState, queries, panelState, sortState, saveProc, delProc, backend, trace, rendered,
                   transportation, expenseMap, exitingAttachments, flightFiles, flightSaving,
                   flightPc, fl, transportations>>

FlightSetFiles(v) ==
    /\ EditStep
    /\ FlightFormOpen
    /\ v # flightFiles
    /\ flightFiles' = v
    /\ UNCHANGED <<lookupState, cacheState, queries, panelState, sortState, saveProc, delProc, backend, trace, rendered,
                   transportation, expenseMap, exitingAttachments, flightValues, flightSaving,
                   flightPc, fl, transportations>>

\* the submit button is not clickable while it is loading
HandleFormSubmit ==
    /\ UserStep
    /\ flightPc = "idle" /\ ~flightSaving
    /\ flightSaving' = TRUE
    /\ fl' = Some([values |-> flightValues, files |-> flightFiles, attachments |-> <<>>,
                   expenseId |-> None, call |-> None, write |-> None])
    /\ flightPc' = "upload"
    /\ trace' = trace \o <<FlightEv("handleFormSubmit", 0),
                           FlightEv("uploadAttachments", Len(flightFiles))>>
    /\ UNCHANGED <<lookupState, cacheState, queries, panelState, sortState, saveProc, delProc, backend, rendered,
                   transportation, expenseMap, exitingAttachments, flightValues, flightFiles,
                   transportations>>

\* lines 161-194: the payload is built and the transportation write is issued
issueTransportationWrite(newIds, expenseId, events) ==
    LET w == transportationWrite(transportation, fl[1].values, trip, newIds, expenseId)
    IN  /\ transportation' = assignedTransportation(transportation, exitingAttachments,
                                                    newIds, expenseId)
        /\ fl' = Some([fl[1] EXCEPT !.attachments = newIds, !.expenseId = expenseId,
                                    !.write = Some(w)])
        /\ flightPc' = "transportation"
        /\ trace' = trace \o events \o <<FlightEv(w.op, w.id)>>

\* mutation: the failure is reported but the saving flag is left on
flightFailed_staysSaving(why) ==
    /\ trace' = trace \o <<FlightEv(why, 0), FlightEv("showErrorNotification", 0)>>
    /\ flightSaving' = flightSaving
    /\ flightPc' = "idle"
    /\ fl' = None
    /\ UNCHANGED <<lookupState, cacheState, queries, panelState, sortState, saveProc, delProc, backend, counters,
                   rendered, transportation, expenseMap, exitingAttachments, flightValues,
                   flightFiles, transportations>>

\* catch and finally of handleFormSubmit
flightFailed(why) ==
    /\ trace' = trace \o <<FlightEv(why, 0), FlightEv("showErrorNotification", 0)>>
    /\ flightSaving' = FALSE
    /\ flightPc' = "idle"
    /\ fl' = None
    /\ UNCHANGED <<lookupState, cacheState, queries, panelState, sortState, saveProc, delProc, backend, counters,
                   rendered, transportation, expenseMap, exitingAttachments, flightValues,
                   flightFiles, transportations>>

FlightUploadResolve ==
    /\ flightPc = "upload"
    /\ attStore' = uploadAttachments(attStore, fl[1].files)
    /\ LET newIds == uploadedIds(attStore, fl[1].files)
           expenseId == linkedExpenseId(transportation, expenseMap)
           call == expenseCall(fl[1].values, expenseId, trip)
       IN  IF call.op = "none"
           THEN issueTransportationWrite(newIds, expenseId,
                                         <<FlightEv("uploadResolved", Len(newIds))>>)
           ELSE /\ fl' = Some([fl[1] EXCEPT !.attachments = newIds, !.expenseId = expenseId,
                                            !.call = Some(call)])
                /\ flightPc' = "expense"
                /\ trace' = trace \o <<FlightEv("uploadResolved", Len(newIds)),
                                       FlightEv(call.op, call.id)>>
                /\ transportation' = transportation
    /\ UNCHANGED <<lookupState, cacheState, queries, panelState, sortState, saveProc, delProc, repo, nextId, counters,
                   rendered, expenseMap, exitingAttachments, flightValues, flightFiles,
                   flightSaving, transportations>>

FlightUploadReject ==
    /\ flightPc = "upload"
    /\ flightFailed("uploadRejected")

FlightExpenseResolve ==
    /\ flightPc = "expense"
    /\ LET call == fl[1].call[1]
       IN  \/ /\ call.op = "updateExpense"
              /\ call.id \in DOMAIN repo
              /\ repo' = updateExpense(repo, call.id, call.payload)
              /\ nextId' = nextId
              /\ issueTransportationWrite(fl[1].attachments, fl[1].expenseId,
                                          <<FlightEv("expenseResolved", call.id)>>)
           \/ /\ call.op = "createExpense"
              /\ repo' = createExpense(repo, nextId, call.payload)
              /\ nextId' = nextId + 1
              /\ issueTransportationWrite(fl[1].attachments, Some(nextId),
                                          <<FlightEv("expenseResolved", nextId)>>)
           \/ /\ call.op = "deleteExpense"
              /\ call.id \in DOMAIN repo
              /\ repo' = deleteExpense(repo, call.id)
              /\ nextId' = nextId
              /\ issueTransportationWrite(fl[1].attachments, None,
                                          <<FlightEv("expenseResolved", call.id)>>)
    /\ UNCHANGED <<lookupState, cacheState, queries, panelState, sortState, saveProc, delProc, attStore, counters,
                   rendered, expenseMap, exitingAttachments, flightValues, flightFiles,
                   flightSaving, transportations>>

FlightExpenseReject ==
    /\ flightPc = "expense"
    /\ flightFailed("expenseRejected")

FlightTransportationResolve ==
    /\ flightPc = "transportation"
    /\ LET w == fl[1].write[1]
       IN  \/ /\ w.op = "updateTransportation"
              /\ w.id \in DOMAIN transportations
              /\ transportations' = updateTransportation(transportations, w.id, w.payload)
           \/ /\ w.op = "createTransportationEntry"
              /\ transportations' =
                    createTransportationEntry(transportations, Len(transportations) + 1,
                                              w.payload)
    /\ trace' = trace \o <<FlightEv("transportationResolved", 0), FlightEv("onSuccess", 0)>>
    /\ flightSaving' = FALSE
    /\ flightPc' = "closed"
    /\ fl' = None
    /\ UNCHANGED <<lookupState, cacheState, queries, panelState, sortState, saveProc, delProc, backend, counters,
                   rendered, transportation, expenseMap, exitingAttachments, flightValues,
                   flightFiles>>

FlightTransportationReject ==
    /\ flightPc = "transportation"
    /\ flightFailed("transportationRejected")

(***************************************************************************)
(* Specification of the flight form, and of the two forms that write       *)
(* expenses (the edit modal of the expenses panel and the flight form)     *)
(* open at the same time                                                   *)
(***************************************************************************)
FlightSeedRepo ==
    (1 :> [name |-> "Flight: AAA to BBB", trip |-> 1, cost |-> Money(20000, "USD"),
           occurredOn |-> 103, notes |-> "", category |-> "transportation",
           attachmentReferences |-> <<>>])

\* the flight shown: none (a new flight), or flight 1 without expense, with
\* expense 1, or with an expense that no longer exists
TransportationInputs ==
    {None} \cup {Some([id |-> 1, expenseId |-> e, attachmentReferences |-> <<1>>,
                        flightNumber |-> "S0"]) :
                    e \in {None, Some(1), Some(7)}}

ExpenseMapInputs == {None, Some(<<>>), Some(FlightSeedRepo)}

InitFlight ==
    /\ trip = [id |-> 1, budget |-> Some(Money(50000, "EUR"))]
    /\ user = Some("USD")
    /\ repo = FlightSeedRepo
    /\ attStore = <<"r1">>
    /\ nextId = 2
    /\ tripAttachments = Some(<<1>>)
    /\ rawExpenses = listExpenses(repo, trip.id)
    /\ listStale = FALSE
    /\ rates = {}
    /\ isModalOpen = FALSE
    /\ selectedExpense = None
    /\ saving = FALSE
    /\ sortBy = None
    /\ sortDirection = "asc"
    /\ name = ""
    /\ amount = None
    /\ currency = initialCurrency(user, trip)
    /\ occurredOn = None
    /\ notes = ""
    /\ category = None
    /\ files = <<>>
    /\ existingAttachments = <<>>
    /\ savePc = "idle"
    /\ sv = None
    /\ req = None
    /\ confirmFor = None
    /\ delPending = <<>>
    /\ trace = <<>>
    /\ steps = 0
    /\ edits = 0
    /\ rendered = None
    /\ cacheUnobserved
    /\ transportation \in TransportationInputs
    /\ expenseMap \in ExpenseMapInputs
    /\ exitingAttachments = IF transportation = None THEN None
                            ELSE Some(transportation[1].attachmentReferences)
    /\ flightValues = initialFlightValues(transportation, expenseMap, user)
    /\ flightFiles = <<>>
    /\ flightSaving = FALSE
    /\ flightPc = "idle"
    /\ fl = None
    /\ debounced = None
    /\ lookups = <<>>
    /\ flightRoute = initialFlightRoute(transportation, flightValues)
    /\ transportations =
          IF transportation = None THEN <<>>
          ELSE (1 :> [type |-> "flight", cost |-> [value |-> Some(20000), currency |-> "USD"],
                      departureTime |-> 103, trip |-> 1,
                      attachmentReferences |-> transportation[1].attachmentReferences,
                      expenseId |-> transportation[1].expenseId])

NextFlight ==
    \/ \E v \in FlightCostInputs : FlightSetCost(v)
    \/ \E v \in FlightFileInputs : FlightSetFiles(v)
    \/ HandleFormSubmit
    \/ FlightUploadResolve
    \/ FlightUploadReject
    \/ FlightExpenseResolve
    \/ FlightExpenseReject
    \/ FlightTransportationResolve
    \/ FlightTransportationReject

SpecFlight == InitFlight /\ [][NextFlight]_vars

\* flight 1 is linked to expense 1, which the panel lists
InitForms ==
    /\ InitFlight
    /\ transportation = Some([id |-> 1, expenseId |-> Some(1), attachmentReferences |-> <<1>>,
                               flightNumber |-> "S0"])
    /\ expenseMap \in {None, Some(FlightSeedRepo)}

\* the saves the panel and the flight form have started so far
PanelSaves ==
    Cardinality({k \in 1..Len(trace) :
                    "by" \notin DOMAIN trace[k] /\ trace[k].op = "uploadAttachments"})

FlightSubmits ==
    Cardinality({k \in 1..Len(trace) : trace[k] = FlightEv("handleFormSubmit", 0)})

PanelSave ==
    \/ \E i \in 1..Len(expenses) : OpenModalForEdit(expenses[i])
    \/ \E v \in {0, 1000} : SetAmount(v)
    \/ PanelSaves < MaxSaves /\ OnSave
    \/ OnSaveRejected
    \/ UploadResolve
    \/ UploadReject
    \/ MutationResolve
    \/ MutationReject
    \/ InvalidateListResolve
    \/ InvalidateListReject
    \/ InvalidateAttachmentsResolve
    \/ InvalidateAttachmentsReject

FlightSave ==
    \/ \E v \in {None, Some(30000)} : FlightSetCost(v)
    \/ FlightSubmits < MaxSaves /\ HandleFormSubmit
    \/ FlightUploadResolve
    \/ FlightUploadReject
    \/ FlightExpenseResolve
    \/ FlightExpenseReject
    \/ FlightTransportationResolve
    \/ FlightTransportationReject

NextForms == PanelSave \/ FlightSave

SpecForms == InitForms /\ [][NextForms]_vars

\* every awaited call of a running save settles: it resolves or rejects
SettlePanel ==
    \/ UploadResolve \/ UploadReject
    \/ MutationResolve \/ MutationReject
    \/ InvalidateListResolve \/ InvalidateListReject
    \/ InvalidateAttachmentsResolve \/ InvalidateAttachmentsReject

SettleFlight ==
    \/ FlightUploadResolve \/ FlightUploadReject
    \/ FlightExpenseResolve \/ FlightExpenseReject
    \/ FlightTransportationResolve \/ FlightTransportationReject

FairForms == SpecForms /\ WF_vars(SettlePanel) /\ WF_vars(SettleFlight)

(***************************************************************************)
(* The two queries of the panel and the query cache (useQuery, lines       *)
(* 125-139): a result is stored under the key of the query that fetched it *)
(***************************************************************************)
\* mutation: the key of the list query does not hold the trip id
listQueryKey_noTrip(t) == <<"listExpenses", 0>>

\* line 126
listQueryKey(t) == <<"listExpenses", t.id>>

RECURSIVE dedupe(_)
dedupe(s) ==
    IF s = <<>> THEN <<>>
    ELSE LET front == dedupe(SubSeq(s, 1, Len(s) - 1))
         IN  IF s[Len(s)] \in SeqToSet(front) THEN front ELSE Append(front, s[Len(s)])

\* Array.from(currencyCodes): the codes in the order the Set received them
currencyCodeArray(u, t, raw) ==
    dedupe(<<IF t.budget # None /\ t.budget[1].currency # ""
             THEN t.budget[1].currency ELSE DefaultCurrency,
             IF u # None /\ u[1] # "" THEN u[1] ELSE DefaultCurrency>>
           \o [i \in 1..Len(raw) |->
                 IF raw[i].cost.currency # "" THEN raw[i].cost.currency ELSE DefaultCurrency])

\* line 137
ratesQueryKey(u, t, raw) == <<"getCurrencyConversionRates", currencyCodeArray(u, t, raw)>>

\* getCurrencyConversionRates(codes): the known rates between the codes
getCurrencyConversionRates(codes) ==
    {r \in RatePool : r.base \in SeqToSet(codes) /\ r.target \in SeqToSet(codes)}

\* the data of a query: undefined until its key has a result
queryData(cache, key) == IF key \in DOMAIN cache THEN Some(cache[key]) ELSE None

\* rawExpenses || [] and rates || []
observedList(cache, t) ==
    IF queryData(cache, listQueryKey(t)) # None
    THEN queryData(cache, listQueryKey(t))[1] ELSE <<>>

observedRates(cache, u, t) ==
    LET key == ratesQueryKey(u, t, observedList(cache, t))
    IN  IF queryData(cache, key) # None THEN queryData(cache, key)[1] ELSE {}

\* the fetches the panel's two queries ask for in a render: the query
\* function of each closes over the trip id, or the codes, of that render
observedFetches(cache, u, t) ==
    {[key |-> listQueryKey(t), tripId |-> t.id, codes |-> <<>>],
     [key |-> ratesQueryKey(u, t, observedList(cache, t)), tripId |-> 0,
      codes |-> currencyCodeArray(u, t, observedList(cache, t))]}

\* a query whose key already has a fetch in flight does not start another
startFetches(running, asked) ==
    running \cup {f \in asked : \A g \in running : g.key # f.key}

\* the panel is rendered with another trip: both queries take their new key,
\* the fetches of the old keys are left running
TripChange(t) ==
    /\ steps < MaxTripChanges /\ steps' = steps + 1 /\ edits' = edits
    /\ t # trip
    /\ trip' = t
    /\ rawExpenses' = observedList(queryCache, t)
    /\ rates' = observedRates(queryCache, user, t)
    /\ fetching' = startFetches(fetching, observedFetches(queryCache, user, t))
    /\ trace' = Append(trace, Ev("tripChanged", t.id))
    /\ UNCHANGED <<user, tripAttachments, listStale, panelState, sortState, saveProc, delProc,
                   backend, rendered, flightState, lookupState, queryCache>>

\* a fetch of a list query resolves: its result goes to the slot of its key;
\* a changed currency set gives the rates query a new key
ListFetchResolve(f) ==
    /\ f \in fetching
    /\ f.key[1] = "listExpenses"
    /\ queryCache' = (f.key :> listExpenses(repo, f.tripId)) @@ queryCache
    /\ rawExpenses' = observedList(queryCache', trip)
    /\ rates' = observedRates(queryCache', user, trip)
    /\ fetching' = startFetches(fetching \ {f},
                                observedFetches(queryCache', user, trip)
                                   \ observedFetches(queryCache, user, trip))
    /\ trace' = Append(trace, Ev("listResolved", f.tripId))
    /\ UNCHANGED <<trip, user, tripAttachments, listStale, panelState, sortState, saveProc,
                   delProc, backend, counters, rendered, flightState, lookupState>>

RatesFetchResolve(f) ==
    /\ f \in fetching
    /\ f.key[1] = "getCurrencyConversionRates"
    /\ queryCache' = (f.key :> getCurrencyConversionRates(f.codes)) @@ queryCache
    /\ rates' = observedRates(queryCache', user, trip)
    /\ fetching' = fetching \ {f}
    /\ trace' = Append(trace, Ev("ratesResolved", Len(f.codes)))
    /\ UNCHANGED <<trip, user, tripAttachments, rawExpenses, listStale, panelState, sortState,
                   saveProc, delProc, backend, counters, rendered, flightState, lookupState>>

\* a fetch fails: no slot is written
FetchReject(f) ==
    /\ f \in fetching
    /\ fetching' = fetching \ {f}
    /\ UNCHANGED <<queries, panelState, sortState, saveProc, delProc, backend, counters,
                   rendered, flightState, lookupState, queryCache, trace>>

CacheTrips == {[id |-> 1, budget |-> Some(Money(50000, "EUR"))], [id |-> 2, budget |-> None]}

CacheRepo ==
    (1 :> [name |-> "Hotel", trip |-> 1, cost |-> Money(1005, "USD"), occurredOn |-> 0,
           notes |-> "", category |-> "lodging", attachmentReferences |-> <<>>])
    @@ (2 :> [name |-> "Ryokan", trip |-> 2, cost |-> Money(3000, "JPY"), occurredOn |-> 0,
              notes |-> "", category |-> "lodging", attachmentReferences |-> <<>>])

\* the panel is mounted for a trip: both queries start to fetch
InitCache ==
    /\ trip \in CacheTrips
    /\ user = Some("USD")
    /\ rawExpenses = <<>>
    /\ rates = {}
    /\ sortBy = None
    /\ sortDirection = "asc"
    /\ panelIdle
    /\ repo = CacheRepo
    /\ attStore = <<>>
    /\ nextId = 3
    /\ rendered = None
    /\ queryCache = <<>>
    /\ fetching = observedFetches(queryCache, user, trip)

NextCache ==
    \/ \E t \in CacheTrips : TripChange(t)
    \/ \E f \in fetching : ListFetchResolve(f)
    \/ \E f \in fetching : RatesFetchResolve(f)
    \/ \E f \in fetching : FetchReject(f)

SpecCache == InitCache /\ [][NextCache]_vars

(***************************************************************************)
(* FlightForm: the flight number lookup (_loadFlightInfo, getFlightInfo)   *)
(***************************************************************************)
FlightNumberInputs == {"", "S0", "A1", "B2", "ZZ"}

\* getFlightRoute(flightNumber): the route of a known flight number
getFlightRoute(flightNumber) ==
    CASE flightNumber = "A1" -> Some([origin |-> "CCC", destination |-> "DDD", airline |-> "AL1"])
      [] flightNumber = "B2" -> Some([origin |-> "EEE", destination |-> "FFF", airline |-> "AL2"])
      [] OTHER               -> None

FlightNumberId(flightNumber) ==
    CASE flightNumber = "A1" -> 1
      [] flightNumber = "B2" -> 2
      [] flightNumber = "ZZ" -> 3
      [] OTHER               -> 0

\* transportation?.metadata?.flightNumber
storedFlightNumber(tr) == IF tr # None THEN Some(tr[1].flightNumber) ELSE None

\* line 66: nothing is looked up for an empty or the stored flight number
lookupWanted(tr, flightNumber) ==
    flightNumber # "" /\ Some(flightNumber) # storedFlightNumber(tr)

\* onBlur of the flight number input: the debounced callback is called and
\* holds its latest argument until the timer of 500 ms runs out
FlightNumberBlur(flightNumber) ==
    /\ EditStep
    /\ FlightFormOpen
    /\ debounced' = Some(flightNumber)
    /\ UNCHANGED <<cacheState, queries, panelState, sortState, saveProc, delProc, backend,
                   trace, rendered, flightState, lookups, flightRoute>>

\* the timer runs out: _loadFlightInfo runs with the argument held
DebounceFire ==
    /\ debounced # None
    /\ debounced' = None
    /\ IF lookupWanted(transportation, debounced[1])
       THEN /\ lookups' = Append(lookups, debounced[1])
            /\ trace' = Append(trace, FlightEv("getFlightRoute", FlightNumberId(debounced[1])))
       ELSE /\ lookups' = lookups
            /\ trace' = trace
    /\ UNCHANGED <<cacheState, queries, panelState, sortState, saveProc, delProc, backend,
                   counters, rendered, flightState, flightRoute>>

\* lines 70-89: a lookup resolves and sets the fields its route holds
LookupResolve(k) ==
    /\ k \in 1..Len(lookups)
    /\ LET route == getFlightRoute(lookups[k])
           origin == IF route # None THEN route[1].origin ELSE ""
           destination == IF route # None THEN route[1].destination ELSE ""
           airline == IF route # None THEN route[1].airline ELSE ""
       IN  /\ flightRoute' =
                 [origin |-> IF origin # "" THEN origin ELSE flightRoute.origin,
                  destination |-> IF destination # "" THEN destination
                                  ELSE flightRoute.destination,
                  airline |-> IF airline # "" THEN airline ELSE flightRoute.airline]
           /\ flightValues' =
                 [flightValues EXCEPT
                     !.origin = IF origin # "" THEN origin ELSE @,
                     !.destination = IF destination # "" THEN destination ELSE @]
    /\ lookups' = removeAt(lookups, k)
    /\ trace' = Append(trace, FlightEv("routeResolved", FlightNumberId(lookups[k])))
    /\ UNCHANGED <<cacheState, queries, panelState, sortState, saveProc, delProc, backend,
                   counters, rendered, transportation, expenseMap, exitingAttachments,
                   flightFiles, flightSaving, flightPc, fl, transportations, debounced>>

\* a lookup fails: the rejection is not handled, nothing is set
LookupReject(k) ==
    /\ k \in 1..Len(lookups)
    /\ lookups' = removeAt(lookups, k)
    /\ trace' = Append(trace, FlightEv("routeRejected", FlightNumberId(lookups[k])))
    /\ UNCHANGED <<cacheState, queries, panelState, sortState, saveProc, delProc, backend,
                   counters, rendered, flightState, debounced, flightRoute>>

InitLookup ==
    /\ InitFlight
    /\ expenseMap = None
    /\ transportation = None \/ transportation[1].expenseId = None

NextLookup ==
    \/ \E flightNumber \in FlightNumberInputs : FlightNumberBlur(flightNumber)
    \/ DebounceFire
    \/ \E k \in 1..Len(lookups) : LookupResolve(k)
    \/ \E k \in 1..Len(lookups) : LookupReject(k)

SpecLookup == InitLookup /\ [][NextLookup]_vars

(***************************************************************************)
(* Properties                                                              *)
(***************************************************************************)
\* the events appended to the trace by the current step
Appended == SubSeq(trace', Len(trace) + 1, Len(trace'))

Ops(s) == [i \in 1..Len(s) |-> s[i].op]

Has(s, op) == \E i \in 1..Len(s) : s[i].op = op

\* the part of the trace written since onSave was last invoked
SinceSave(tr) ==
    IF ~Has(tr, "onSave") THEN <<>>
    ELSE LET last == CHOOSE i \in 1..Len(tr) :
                        /\ tr[i].op = "onSave"
                        /\ \A j \in (i + 1)..Len(tr) : tr[j].op # "onSave"
         IN  SubSeq(tr, last, Len(tr))

SaveCalls == {"uploadAttachments", "updateExpense", "createExpense"}

Mutations == {"updateExpense", "createExpense"}

Count(s, S) == Cardinality({i \in 1..Len(s) : s[i].op \in S})

EnvStep == steps' = steps /\ edits' = edits

\* C1: onSave proceeds only for a non-empty name, a positive amount and a
\* currency code; for every other form state it issues no call, changes no
\* panel state and leaves the modal open.
C1_Valid == name # "" /\ amount # None /\ amount[1] > 0 /\ currency # ""

C1_RejectsUnlessPositive ==
    [][(Appended # <<>> /\ Appended[1].op = "onSave" /\ ~C1_Valid)
          => /\ Appended = <<Ev("onSave", 0)>>
             /\ UNCHANGED <<panelState, saveProc, delProc, backend, queries>>]_vars

\* C2: on a valid onSave the files are uploaded first; once the upload has
\* resolved exactly one mutation is issued, updateExpense(selectedExpense.id)
\* when an expense is selected and createExpense otherwise, and its
\* attachmentReferences are the pre-existing attachment ids followed by the
\* ids of the attachments the upload stored.
C2_Order ==
    \A i \in 1..Len(trace) :
        trace[i].op \in Mutations =>
            /\ i > 1 /\ trace[i - 1].op = "uploadResolved"
            /\ \E j \in 1..(i - 1) :
                  /\ trace[j].op = "uploadAttachments"
                  /\ \A k \in (j + 1)..(i - 1) : trace[k].op \notin SaveCalls \cup {"onSave"}

C2_One ==
    /\ Count(SinceSave(trace), Mutations) <= 1
    /\ savePc \in {"mutate", "inval1", "inval2"} => Count(SinceSave(trace), Mutations) = 1
    /\ savePc = "upload" => Count(SinceSave(trace), Mutations) = 0

C2_Request ==
    savePc = "mutate" =>
        LET n == Len(sv[1].files)
            stored == [k \in 1..n |-> Len(attStore) - n + k]
        IN  /\ req # None
            /\ IF sv[1].selectedExpense # None
               THEN req[1].op = "updateExpense" /\ req[1].id = sv[1].selectedExpense[1].id
               ELSE req[1].op = "createExpense"
            /\ req[1].payload.attachmentReferences = sv[1].existingAttachments \o stored
            /\ \A k \in 1..n : attStore[stored[k]] = sv[1].files[k]
            /\ Has(SinceSave(trace), req[1].op)

C2_UploadThenOneMutation == C2_Order /\ C2_One /\ C2_Request

C2_Witness ==
    /\ savePc = "mutate"
    /\ req[1].op = "updateExpense"
    /\ Len(sv[1].files) > 0
    /\ sv[1].existingAttachments # <<>>

\* C3: when the mutation has succeeded the expense list is invalidated, when
\* that has resolved the trip attachments are invalidated, and when that has
\* resolved the modal is closed (not open, nothing selected, form reset);
\* onSave closes the modal in no other step.
C3_FormIsReset ==
    /\ name' = "" /\ amount' = None /\ occurredOn' = None /\ notes' = ""
    /\ category' = None /\ files' = <<>> /\ existingAttachments' = <<>>
    /\ currency' = initialCurrency(user, trip)

C3_Step ==
    /\ (Has(Appended, "mutationResolved"))
          => Ops(Appended) = <<"mutationResolved", "invalidateQueries_listExpenses">>
    /\ (savePc = "inval1" /\ savePc' = "inval2")
          => Ops(Appended) = <<"invalidateQueries_getTripAttachments">>
    /\ (savePc = "inval2" /\ savePc' = "idle" /\ ~Has(Appended, "showErrorNotification"))
          => ~isModalOpen' /\ selectedExpense' = None /\ C3_FormIsReset
    /\ (EnvStep /\ formInput' # formInput)
          => /\ savePc = "inval2" /\ savePc' = "idle"
             /\ ~isModalOpen'
             /\ \E i, j, k \in 1..Len(SinceSave(trace)) :
                   /\ i < j /\ j < k
                   /\ SinceSave(trace)[i].op \in Mutations
                   /\ SinceSave(trace)[j].op = "invalidateQueries_listExpenses"
                   /\ SinceSave(trace)[k].op = "invalidateQueries_getTripAttachments"
                   /\ \E m \in (i + 1)..(j - 1) : SinceSave(trace)[m].op = "mutationResolved"

C3_InvalidateThenClose == [][C3_Step]_vars

C3_Witness ==
    /\ trace # <<>> /\ trace[Len(trace)].op = "closeModal"
    /\ Has(trace, "mutationResolved")
    /\ ~isModalOpen /\ savePc = "idle"

\* C4: when a step of onSave fails, one error notification is shown, no call
\* is issued by the failure, the modal and every form input keep their
\* values, and no call of a save is issued later without a new user action.
Rejections == {"uploadRejected", "mutationRejected", "invalidateRejected"}

C4_Step ==
    /\ (\E w \in Rejections : Has(Appended, w))
          => /\ Len(Appended) = 2
             /\ Appended[1].op \in Rejections
             /\ Appended[2].op = "showErrorNotification"
             /\ UNCHANGED formInput
             /\ ~saving' /\ savePc' = "idle" /\ req' = None
             /\ UNCHANGED backend
    /\ (savePc = "idle" /\ \E c \in SaveCalls : Has(Appended, c))
          => steps' = steps + 1

C4_FailurePreservesInput == [][C4_Step]_vars

C4_Witness ==
    /\ Has(trace, "showErrorNotification")
    /\ Has(trace, "mutationRejected")
    /\ isModalOpen /\ name # "" /\ amount # None /\ savePc = "idle"

\* C5: every deleteExpense call follows a confirmation of the dialog that
\* handleDelete opened for that expense; handleDelete without a selected
\* expense does nothing; cancelling issues no call and leaves the modal and
\* the selection as they are.
C5_Confirmed ==
    \A i \in 1..Len(trace) :
        trace[i].op = "deleteExpense" =>
            /\ i > 1 /\ trace[i - 1] = Ev("confirm", trace[i].id)
            /\ \E j \in 1..(i - 1) : trace[j] = Ev("handleDelete", trace[i].id)
            /\ Count(SubSeq(trace, 1, i), {"confirm"})
                 >= Count(SubSeq(trace, 1, i), {"deleteExpense"})

C5_Step ==
    /\ (Has(Appended, "handleDelete") /\ selectedExpense = None)
          => /\ Appended = <<Ev("handleDelete", 0)>>
             /\ UNCHANGED <<panelState, saveProc, delProc, backend, queries>>
    /\ (Has(Appended, "handleDelete") /\ selectedExpense # None)
          => /\ confirmFor' = selectedExpense
             /\ Appended = <<Ev("handleDelete", selectedExpense[1].id)>>
             /\ UNCHANGED <<delPending, backend>>
    /\ Has(Appended, "cancel")
          => /\ Len(Appended) = 1
             /\ UNCHANGED <<panelState, saveProc, delPending, backend, queries>>
    /\ delPending' # delPending /\ Len(delPending') > Len(delPending)
          => /\ confirmFor # None
             /\ delPending' = Append(delPending, confirmFor[1].id)
             /\ Has(Appended, "confirm")

C5_DeleteOnlyAfterConfirm == []C5_Confirmed /\ [][C5_Step]_vars

C5_Witness ==
    /\ Has(trace, "deleteExpense")
    /\ Has(trace, "deleteResolved")
    /\ 1 \notin DOMAIN repo

\* C6: the deletion acknowledgment for an expense is shown only after the
\* deleteExpense call for that expense has completed.
C6_AckAfterDeleteCompleted ==
    \A i \in 1..Len(trace) :
        trace[i].op = "showDeleteNotification" =>
            \E j \in 1..(i - 1) : trace[j] = Ev("deleteResolved", trace[i].id)

\* C7: a successful delete of X invalidates the expense list, so that X is
\* absent from the list once it is fetched again; a delete of X that fails is
\* caught and reported to the user.
C7_AbsentAfterRefetch ==
    \A i \in 1..Len(trace) :
        trace[i].op = "deleteResolved" =>
            \/ listStale
            \/ savePc = "inval1"
            \/ \A k \in 1..Len(rawExpenses) : rawExpenses[k].id # trace[i].id

C7_FailureReported ==
    Has(Appended, "deleteRejected") => Has(Appended, "showErrorNotification")

C7_DeleteInvalidatesAndReports == []C7_AbsentAfterRefetch /\ [][C7_FailureReported]_vars

\* C8: the cost sent by every create or update is the amount and currency of
\* the form as entered; opening an expense for edit fills the form from
\* expense.cost, so that no converted value reaches the repository.
EnteredCosts ==
    {Money(a, c) : a \in AmountInputs \cup {SeedRepo[i].cost.value : i \in DOMAIN SeedRepo},
                   c \in CurrencyInputs \cup {"USD", "EUR"}}

C8_Payload ==
    savePc = "mutate" =>
        /\ req[1].payload.cost = Money(sv[1].amount[1], sv[1].currency)
        /\ DOMAIN req[1].payload \subseteq PayloadFields
        /\ (sv[1].selectedExpense # None /\ edits = 0)
              => req[1].payload.cost = sv[1].selectedExpense[1].cost

C8_Stored == \A id \in DOMAIN repo : repo[id].cost \in EnteredCosts

C8_Opened ==
    (~isModalOpen /\ isModalOpen' /\ selectedExpense' # None)
        => /\ amount' = IF selectedExpense'[1].cost.value # 0
                        THEN Some(selectedExpense'[1].cost.value) ELSE None
           /\ currency' = selectedExpense'[1].cost.currency
           /\ \E i \in 1..Len(rawExpenses) :
                 /\ rawExpenses[i].id = selectedExpense'[1].id
                 /\ rawExpenses[i].cost = selectedExpense'[1].cost

C8_ConvertedNeverPersisted == [](C8_Payload /\ C8_Stored) /\ [][C8_Opened]_vars

C8_Witness ==
    /\ savePc = "inval1"
    /\ sv[1].selectedExpense # None
    /\ sv[1].selectedExpense[1].convertedCost # None
    /\ sv[1].selectedExpense[1].convertedCost[1] # sv[1].selectedExpense[1].cost
    /\ 1 \in DOMAIN repo
    /\ repo[1].cost = sv[1].selectedExpense[1].cost

\* C9: an expense whose rate to the target currency is missing has no
\* convertedCost, adds nothing to the converted total, and is still shown
\* in the list with its original amount.
ClaimedTarget ==
    IF trip.budget # None THEN trip.budget[1].currency
    ELSE IF user # None THEN user[1] ELSE "USD"

RateKnown(e) == \E r \in rates : r.base = e.cost.currency /\ r.target = ClaimedTarget

RateMissing(e) == e.cost.currency # ClaimedTarget /\ ~RateKnown(e)

C9_MissingRateStillShown ==
    \A i \in 1..Len(rendered[1].sortedExpenses) :
        LET e == rendered[1].sortedExpenses[i]
        IN  RateMissing(e) =>
               /\ e.convertedCost = None
               /\ rendered[1].totalExpenses =
                     SumSeq([k \in 1..Len(rendered[1].sortedExpenses) |->
                               IF k = i THEN 0
                               ELSE convertedValue(rendered[1].sortedExpenses[k])])
               /\ \E k \in 1..Len(rendered[1].expenseCards) :
                     /\ rendered[1].expenseCards[k].id = e.id
                     /\ rendered[1].expenseCards[k].amountRow = Some(e.cost)

\* C10: an expense in another currency than the target, with a known rate r
\* to the target, gets convertedCost.value = cost.value * r rounded to the
\* nearest hundredth (a half rounds up) and convertedCost.currency = target.
C10_ConvertedByRate ==
    \A i \in 1..Len(rendered[1].expenses) :
        LET e == rendered[1].expenses[i]
        IN  (e.cost.currency # ClaimedTarget /\ RateKnown(e)) =>
               /\ e.convertedCost # None
               /\ e.convertedCost[1].currency = ClaimedTarget
               /\ \E r \in rates :
                     /\ r.base = e.cost.currency /\ r.target = ClaimedTarget
                     /\ 2 * RateDen * e.convertedCost[1].value <= 2 * e.cost.value * r.rate + RateDen
                     /\ 2 * RateDen * e.convertedCost[1].value > 2 * e.cost.value * r.rate - RateDen

C10_Witness ==
    \E i \in 1..Len(rendered[1].expenses) :
        /\ rendered[1].expenses[i].cost = Money(1005, "USD")
        /\ rendered[1].expenses[i].convertedCost = Some(Money(905, "EUR"))
        /\ ClaimedTarget = "EUR"

\* C11: an expense whose cost currency is the target currency has
\* convertedCost equal to its cost, whatever rates are supplied.
C11_IdentityConversion ==
    \A i \in 1..Len(rendered[1].expenses) :
        LET e == rendered[1].expenses[i]
        IN  e.cost.currency = ClaimedTarget => e.convertedCost = Some(e.cost)

C11_Witness ==
    /\ rates # {}
    /\ ClaimedTarget = "EUR"
    /\ user = Some("JPY")
    /\ \E i \in 1..Len(rendered[1].expenses) :
          /\ rendered[1].expenses[i].cost = Money(5000, "EUR")
          /\ rendered[1].expenses[i].convertedCost = Some(Money(5000, "EUR"))

\* C12: the target currency is the trip's budget currency, else the user's
\* currency, else USD; the codes the rates are requested for contain the
\* target currency and the currency of every listed expense.
C12_TargetAndCodes ==
    /\ currency = ClaimedTarget
    /\ ClaimedTarget \in rendered[1].currencyCodes
    /\ \A i \in 1..Len(rawExpenses) : rawExpenses[i].cost.currency \in rendered[1].currencyCodes
    /\ \A i \in 1..Len(rendered[1].expenses) :
          rendered[1].expenses[i].convertedCost # None
              => rendered[1].expenses[i].convertedCost[1].currency = ClaimedTarget

C12_Witness ==
    /\ trip.budget = None /\ user = Some("JPY")
    /\ rendered[1].currencyCodes = {"USD", "JPY", "EUR"}
    /\ \E i \in 1..Len(rendered[1].expenses) :
          rendered[1].expenses[i].convertedCost = Some(Money(3000, "JPY"))

\* C13: when every expense has a converted cost, under any sort selection the
\* per-category totals add up to totalExpenses, which is the sum of every
\* convertedCost.value, and every expense falls in exactly one category.
AllConverted == \A i \in 1..Len(rendered[1].expenses) : rendered[1].expenses[i].convertedCost # None

ClaimedCategory(e) == IF e.category = "" THEN "other" ELSE e.category

C13_Partition ==
    AllConverted =>
        LET ct == rendered[1].categoryTotals
        IN  /\ SumSeq([i \in 1..Len(ct) |-> ct[i].amount]) = rendered[1].totalExpenses
            /\ rendered[1].totalExpenses =
                  SumSeq([i \in 1..Len(rendered[1].expenses) |->
                            rendered[1].expenses[i].convertedCost[1].value])
            /\ \A i \in 1..Len(rendered[1].expenses) :
                  Cardinality({k \in 1..Len(ct) :
                      ct[k].category = ClaimedCategory(rendered[1].expenses[i])}) = 1

C13_Witness ==
    /\ AllConverted
    /\ sortBy = Some("amount") /\ sortDirection = "desc"
    /\ Len(rendered[1].expenses) = 3
    /\ Len(rendered[1].categoryTotals) = 2
    /\ rendered[1].totalExpenses = 9000 + 905 + 5000

\* C14: when no two expenses have the same converted amount, switching the
\* amount sort between ascending and descending reverses the shown order;
\* the shown list is a permutation of the expenses and the expense list
\* itself keeps its order.
Reverse(s) == [i \in 1..Len(s) |-> s[Len(s) + 1 - i]]

NoAmountTies(es) ==
    \A i, j \in 1..Len(es) : i # j => convertedValue(es[i]) # convertedValue(es[j])

IsPermutation(a, b) ==
    /\ Len(a) = Len(b)
    /\ \A i \in 1..Len(a) :
          Cardinality({k \in 1..Len(a) : a[k] = a[i]}) = Cardinality({k \in 1..Len(b) : b[k] = a[i]})

C14_Step ==
    (/\ sortBy = Some("amount") /\ sortBy' = Some("amount")
     /\ sortDirection # sortDirection'
     /\ NoAmountTies(rendered[1].expenses))
        => /\ rendered'[1].sortedExpenses = Reverse(rendered[1].sortedExpenses)
           /\ IsPermutation(rendered'[1].sortedExpenses, rendered[1].expenses)
           /\ IsPermutation(rendered[1].sortedExpenses, rendered[1].expenses)
           /\ rendered'[1].expenses = rendered[1].expenses
           /\ rawExpenses' = rawExpenses

C14_AmountSortReverses == [][C14_Step]_vars

C14_Witness ==
    /\ sortBy = Some("amount") /\ sortDirection = "desc"
    /\ Len(rendered[1].expenses) = 3
    /\ NoAmountTies(rendered[1].expenses)
    /\ rendered[1].sortedExpenses # rendered[1].expenses
    /\ rendered[1].sortedExpenses # Reverse(rendered[1].expenses)
    /\ \A i \in 1..2 : convertedValue(rendered[1].sortedExpenses[i])
                          > convertedValue(rendered[1].sortedExpenses[i + 1])

\* C18: the categories shown are the categories of the expenses, an absent
\* category counted as 'other'; each carries the sum of the converted values
\* of its expenses, an absent convertedCost counting 0; they are ordered by
\* descending sum, and categories with equal sums keep the order in which
\* they are first met in the sorted expense list.
FirstMet(ses, cat) ==
    CHOOSE i \in 1..Len(ses) :
        /\ ClaimedCategory(ses[i]) = cat
        /\ \A j \in 1..(i - 1) : ClaimedCategory(ses[j]) # cat

C18_CategoryAggregation ==
    LET sc  == rendered[1].sortedCategories
        ses == rendered[1].sortedExpenses
    IN  /\ {sc[i].category : i \in 1..Len(sc)} = {ClaimedCategory(ses[i]) : i \in 1..Len(ses)}
        /\ Len(sc) = Cardinality({ClaimedCategory(ses[i]) : i \in 1..Len(ses)})
        /\ \A i \in 1..Len(sc) :
              sc[i].amount =
                  SumSeq([k \in 1..Len(ses) |->
                            IF ClaimedCategory(ses[k]) # sc[i].category THEN 0
                            ELSE IF ses[k].convertedCost = None THEN 0
                            ELSE ses[k].convertedCost[1].value])
        /\ \A i, j \in 1..Len(sc) :
              i < j => \/ sc[i].amount > sc[j].amount
                       \/ /\ sc[i].amount = sc[j].amount
                          /\ FirstMet(ses, sc[i].category) < FirstMet(ses, sc[j].category)

C18_Witness ==
    LET sc == rendered[1].sortedCategories
    IN  /\ Len(sc) = 3
        /\ sc[1].category = "other" /\ sc[1].amount = 5000
        /\ sc[2].amount = sc[3].amount
        /\ sc[2].category = "lodging"
        /\ sortBy = Some("date") /\ sortDirection = "desc"

\* C19: handleFormSubmit keeps the linked expense in step with the cost:
\* cost > 0 and a linked expense: updateExpense carrying only cost; cost > 0
\* and no linked expense: one createExpense of category 'transportation'
\* whose id is used; no cost and a linked expense: deleteExpense and the id
\* is cleared; no cost and no linked expense: no expense call.  At most one
\* expense call per submit, issued before the transportation write.
\* The expense is linked when the flight has an expenseId and, if an
\* expenseMap is given, the map holds that id.
FlightExpenseOps == {"updateExpense", "createExpense", "deleteExpense"}

FlightWriteOps == {"updateTransportation", "createTransportationEntry"}

IsFlightEv(e) == "by" \in DOMAIN e

PropExpenseId == IF transportation # None THEN transportation[1].expenseId ELSE None

\* the flight has an expenseId and the given expenseMap holds it
LinkedInMap ==
    /\ PropExpenseId # None
    /\ expenseMap # None
    /\ PropExpenseId[1] \in DOMAIN expenseMap[1]

\* the flight has an expenseId and no given expenseMap lacks it
LinkKept ==
    /\ PropExpenseId # None
    /\ expenseMap = None \/ PropExpenseId[1] \in DOMAIN expenseMap[1]

ClaimedHasCost(v) == v.cost # None /\ v.cost[1] > 0

\* the step in which the upload resolves decides on the expense call
C19_Decision(linked) ==
    (flightPc = "upload" /\ flightPc' \in {"expense", "transportation"})
        => LET v == fl[1].values
           IN  /\ (ClaimedHasCost(v) /\ linked)
                     => /\ flightPc' = "expense"
                        /\ fl'[1].call[1].op = "updateExpense"
                        /\ fl'[1].call[1].id = PropExpenseId[1]
                        /\ DOMAIN fl'[1].call[1].payload = {"cost"}
                        /\ fl'[1].call[1].payload.cost = Money(v.cost[1], v.currencyCode)
               /\ (ClaimedHasCost(v) /\ ~linked)
                     => /\ flightPc' = "expense"
                        /\ fl'[1].call[1].op = "createExpense"
                        /\ fl'[1].call[1].payload.category = "transportation"
                        /\ fl'[1].call[1].payload.cost = Money(v.cost[1], v.currencyCode)
               /\ (~ClaimedHasCost(v) /\ linked)
                     => /\ flightPc' = "expense"
                        /\ fl'[1].call[1].op = "deleteExpense"
                        /\ fl'[1].call[1].id = PropExpenseId[1]
               /\ (~ClaimedHasCost(v) /\ ~linked)
                     => /\ flightPc' = "transportation"
                        /\ fl'[1].call = None
                        /\ repo' = repo

\* the step in which the expense call resolves
C19_Effect ==
    (flightPc = "expense" /\ flightPc' = "transportation")
        => LET call == fl[1].call[1]
           IN  /\ call.op = "updateExpense"
                     => /\ repo' = [repo EXCEPT ![call.id].cost = call.payload.cost]
                        /\ fl'[1].expenseId = Some(call.id)
               /\ call.op = "createExpense"
                     => /\ DOMAIN repo' = DOMAIN repo \cup {nextId}
                        /\ nextId \notin DOMAIN repo
                        /\ \A i \in DOMAIN repo : repo'[i] = repo[i]
                        /\ repo'[nextId].category = "transportation"
                        /\ fl'[1].expenseId = Some(nextId)
               /\ call.op = "deleteExpense"
                     => /\ DOMAIN repo' = DOMAIN repo \ {call.id}
                        /\ \A i \in DOMAIN repo' : repo'[i] = repo[i]
                        /\ fl'[1].expenseId = None

LastSubmit(tr) ==
    IF \E k \in 1..Len(tr) : tr[k].op = "handleFormSubmit"
    THEN CHOOSE k \in 1..Len(tr) :
            /\ tr[k].op = "handleFormSubmit"
            /\ \A j \in (k + 1)..Len(tr) : tr[j].op # "handleFormSubmit"
    ELSE 0

\* the expense calls and the transportation write of the latest submit
C19_OneCallBeforeWrite ==
    LET k0 == LastSubmit(trace)
        calls  == {k \in (k0 + 1)..Len(trace) :
                      IsFlightEv(trace[k]) /\ trace[k].op \in FlightExpenseOps}
        writes == {k \in (k0 + 1)..Len(trace) :
                      IsFlightEv(trace[k]) /\ trace[k].op \in FlightWriteOps}
    IN  /\ k0 = 0 => calls = {} /\ writes = {}
        /\ Cardinality(calls) <= 1
        /\ Cardinality(writes) <= 1
        /\ \A c \in calls, w \in writes : c < w

C20_Step ==
    (flightPc = "transportation" /\ flightPc' = "closed")
        => LET w == fl[1].write[1]
               id == IF w.op = "updateTransportation" THEN w.id ELSE Len(transportations) + 1
               existing == IF w.op = "updateTransportation" /\ exitingAttachments # None
                           THEN exitingAttachments[1] ELSE <<>>
           IN  /\ id \in DOMAIN transportations'
               /\ transportations'[id].expenseId = fl[1].expenseId
               /\ transportations'[id].attachmentReferences = existing \o fl[1].attachments

C20_PersistedLinkState == [][C20_Step]_vars

\* C16: concurrent edits of one expense are last-write-wins: every update the
\* repository applies sets each field it carries to the value it carries and
\* leaves the other fields alone, whatever was written before, without error;
\* the panel carries the payload built from the captured form state, the
\* flight form carries only cost; the stored record changes in no other way.
PanelUpdateApplied ==
    /\ savePc = "mutate" /\ savePc' = "inval1"
    /\ req[1].op = "updateExpense"

FlightUpdateApplied ==
    /\ flightPc = "expense" /\ flightPc' = "transportation"
    /\ fl[1].call[1].op = "updateExpense"

Overwritten(id, payload) ==
    /\ id \in DOMAIN repo /\ id \in DOMAIN repo'
    /\ \A f \in PayloadFields :
          repo'[id][f] = IF f \in DOMAIN payload THEN payload[f] ELSE repo[id][f]
    /\ \A j \in DOMAIN repo \ {id} : j \in DOMAIN repo' /\ repo'[j] = repo[j]

C16_Step ==
    /\ PanelUpdateApplied
          => /\ Overwritten(req[1].id, req[1].payload)
             /\ {"name", "trip", "cost", "attachmentReferences"} \subseteq DOMAIN req[1].payload
             /\ req[1].payload.cost = Money(sv[1].amount[1], sv[1].currency)
             /\ req[1].payload.name = trim(sv[1].name)
             /\ trace'[Len(trace) + 1] = Ev("mutationResolved", req[1].id)
    /\ FlightUpdateApplied
          => /\ Overwritten(fl[1].call[1].id, fl[1].call[1].payload)
             /\ DOMAIN fl[1].call[1].payload = {"cost"}
             /\ trace'[Len(trace) + 1] = FlightEv("expenseResolved", fl[1].call[1].id)
    /\ (\E id \in DOMAIN repo \cap DOMAIN repo' : repo'[id] # repo[id])
          => PanelUpdateApplied \/ FlightUpdateApplied

C16_LastWriteWins == [][C16_Step]_vars

\* the panel's update was issued, then the flight form's update of the cost
\* was applied, then the panel's update was applied and overwrote the cost
C16_Witness ==
    /\ savePc = "inval1"
    /\ req[1].op = "updateExpense" /\ req[1].id = 1
    /\ req[1].payload.cost = Money(1000, "USD")
    /\ flightPc = "transportation"
    /\ fl[1].call # None
    /\ fl[1].call[1] = [op |-> "updateExpense", id |-> 1,
                        payload |-> [cost |-> Money(30000, "USD")]]
    /\ repo[1].cost = Money(1000, "USD")
    /\ \E i, j, k \in 1..Len(trace) :
          /\ i < j /\ j < k
          /\ trace[i] = Ev("updateExpense", 1)
          /\ trace[j] = FlightEv("expenseResolved", 1)
          /\ trace[k] = Ev("mutationResolved", 1)

\* C17: in onSave and in handleFormSubmit the saving flag is true exactly
\* while a save is outstanding: it is set when the save starts, stays set
\* until the awaited calls have settled, and is false again eventually,
\* after success as after failure; a save that validation rejects never sets it.
PanelSaveOutstanding == savePc \in {"upload", "mutate", "inval1", "inval2"}

FlightSaveOutstanding == flightPc \in {"upload", "expense", "transportation"}

C17_Exactly ==
    /\ saving <=> PanelSaveOutstanding
    /\ flightSaving <=> FlightSaveOutstanding

C17_Rejected ==
    (trace' = Append(trace, Ev("onSave", 0))) => (~saving /\ ~saving' /\ savePc' = "idle")

C17_SavingWhileOutstanding ==
    /\ []C17_Exactly
    /\ [][C17_Rejected]_vars
    /\ saving ~> ~saving
    /\ flightSaving ~> ~flightSaving

\* both saves were outstanding at once; the panel's succeeded, the flight
\* form's failed, and both flags are off again
C17_Witness ==
    /\ ~saving /\ ~flightSaving
    /\ savePc = "idle" /\ flightPc = "idle"
    /\ \E i, j, k, l \in 1..Len(trace) :
          /\ i < j /\ j < k /\ k < l
          /\ trace[i] = Ev("onSave", 0)
          /\ trace[j] = FlightEv("handleFormSubmit", 0)
          /\ trace[k] = FlightEv("showErrorNotification", 0)
          /\ trace[l] = Ev("closeModal", 0)

\* C15: a fetch result is stored under the query key that produced it: when
\* the trip or the currency set changes while an older fetch is in flight,
\* the late result is written to the slot of its own key only, and the data
\* shown are those of the current keys, in every order of the responses.
SlotMatchesKey(cache, key) ==
    IF key[1] = "listExpenses"
    THEN \A i \in 1..Len(cache[key]) : CacheRepo[cache[key][i].id].trip = key[2]
    ELSE \A r \in cache[key] : r.base \in SeqToSet(key[2]) /\ r.target \in SeqToSet(key[2])

ClaimedCodes ==
    {IF trip.budget # None THEN trip.budget[1].currency ELSE "USD",
     IF user # None THEN user[1] ELSE "USD"}
       \cup {rawExpenses[i].cost.currency : i \in 1..Len(rawExpenses)}

C15_Shown ==
    /\ \A key \in DOMAIN queryCache : SlotMatchesKey(queryCache, key)
    /\ \A i \in 1..Len(rawExpenses) : CacheRepo[rawExpenses[i].id].trip = trip.id
    /\ <<"listExpenses", trip.id>> \in DOMAIN queryCache
          => rawExpenses = queryCache[<<"listExpenses", trip.id>>]
    /\ <<"listExpenses", trip.id>> \notin DOMAIN queryCache => rawExpenses = <<>>
    /\ \A r \in rates : r.base \in ClaimedCodes /\ r.target \in ClaimedCodes

Written == {key \in DOMAIN queryCache' :
               key \notin DOMAIN queryCache \/ queryCache'[key] # queryCache[key]}

C15_Write ==
    /\ \A key \in DOMAIN queryCache : key \in DOMAIN queryCache'
    /\ \A key \in Written : \E f \in fetching \ fetching' : f.key = key
    /\ Cardinality(fetching \ fetching') <= 1
    /\ \A f \in fetching \ fetching' :
          /\ f.tripId # 0 => f.key = <<"listExpenses", f.tripId>>
          /\ f.tripId = 0 => f.key = <<"getCurrencyConversionRates", f.codes>>
          /\ (f.tripId # 0 /\ f.tripId # trip.id)
                => rawExpenses' = rawExpenses /\ rates' = rates

C15_ResultsKeyedByQuery == []C15_Shown /\ [][C15_Write]_vars

\* the panel was switched from trip 1 to trip 2, the list of trip 2 arrived,
\* then the list of trip 1 arrived late: trip 2's expenses stay shown
C15_Witness ==
    /\ trip.id = 2
    /\ Len(rawExpenses) = 1 /\ rawExpenses[1].id = 2
    /\ <<"listExpenses", 1>> \in DOMAIN queryCache
    /\ Len(queryCache[<<"listExpenses", 1>>]) = 1
    /\ \E i, j, k \in 1..Len(trace) :
          /\ i < j /\ j < k
          /\ trace[i] = Ev("tripChanged", 2)
          /\ trace[j] = Ev("listResolved", 2)
          /\ trace[k] = Ev("listResolved", 1)
          /\ \A l \in 1..i : trace[l].op # "listResolved"

\* C25: the currency code shown next to the total and the per-category
\* amounts (budgetCurrency) is the target currency into which the expenses
\* were converted, whether or not the trip has a budget currency and the
\* user a preferred currency.
\* The category card that shows it is rendered when there is a category.
C25_LabelIsTargetCurrency ==
    Len(rendered[1].sortedCategories) > 0
        => /\ rendered[1].budgetCurrency = ClaimedTarget
           /\ \A i \in 1..Len(rendered[1].expenses) :
                 rendered[1].expenses[i].convertedCost # None
                     => rendered[1].expenses[i].convertedCost[1].currency
                           = rendered[1].budgetCurrency

\* C23: an edit saved without new files preserves the attachments of the
\* expense: the attachmentReferences the update sends are the stored
\* attachmentReferences of the expense, whatever the tripAttachments prop
\* holds (undefined, not yet loaded, or lacking a referenced attachment).
C23_Step ==
    (/\ savePc = "upload" /\ savePc' = "mutate"
     /\ req'[1].op = "updateExpense"
     /\ sv[1].files = <<>>
     /\ req'[1].id \in DOMAIN repo)
        => SeqToSet(req'[1].payload.attachmentReferences)
              = SeqToSet(repo[req'[1].id].attachmentReferences)

C23_EditPreservesAttachments == [][C23_Step]_vars

\* C22: a failed save followed by a successful retry has the persistent
\* effect of one successful save: one expense record is created (or one
\* update applied) and each selected file is uploaded once, whichever step
\* (upload, create or update, invalidation) failed at the first attempt.
SaveStarts == {i \in 1..Len(trace) : trace[i].op = "uploadAttachments"}

\* two saves were started; the first was rejected at some step, the second
\* ran to its end and closed the modal
FailedThenRetried ==
    /\ Cardinality(SaveStarts) = 2
    /\ savePc = "idle"
    /\ Count(trace, Rejections) = 1
    /\ \E i, j \in SaveStarts :
          /\ i < j
          /\ \E k \in (i + 1)..(j - 1) : trace[k].op \in Rejections
          /\ \E k \in (j + 1)..Len(trace) : trace[k] = Ev("closeModal", 0)

C22_RetryAsOneSave ==
    FailedThenRetried
        => /\ Count(trace, {"mutationResolved"}) = 1
           /\ Cardinality(SeqToSet(attStore)) = Len(attStore)

\* C21: when the expense call of a submit has succeeded and the transportation
\* write that follows has failed, then once the handler has finished, also
\* after retries, no expense created by the form is left without a
\* transportation that references it, no transportation references an
\* expense the form deleted, and the flight has at most one expense.
FormCreated == DOMAIN repo \ DOMAIN FlightSeedRepo

FormDeleted == DOMAIN FlightSeedRepo \ DOMAIN repo

WriteFailedAfterExpenseCall ==
    \E i \in 1..Len(trace) :
        /\ trace[i] = FlightEv("transportationRejected", 0)
        /\ \E j \in 1..(i - 1) : IsFlightEv(trace[j]) /\ trace[j].op = "expenseResolved"

C21_ConsistentAfterFailure ==
    (WriteFailedAfterExpenseCall /\ flightPc \in {"idle", "closed"})
        => /\ \A id \in FormCreated :
                 \E t \in DOMAIN transportations : transportations[t].expenseId = Some(id)
           /\ \A t \in DOMAIN transportations :
                 transportations[t].expenseId = None
                    \/ transportations[t].expenseId[1] \notin FormDeleted
           /\ Cardinality(FormCreated) <= 1


\* C24: flight-number lookups in FlightForm settle on the latest request. No
\* lookup is issued for an empty flight number or for one equal to the stored
\* flight number; and when the lookups for flight numbers A and then B were in
\* flight together and both have answered, the origin, destination and
\* airline shown are those of B's route, in whichever order the two answered.
LookupEvents(op) ==
    {i \in 1..Len(trace) : IsFlightEv(trace[i]) /\ trace[i].op = op}

C24_IssueStep ==
    Len(lookups') > Len(lookups)
        => /\ lookups'[Len(lookups')] # ""
           /\ Some(lookups'[Len(lookups')]) # storedFlightNumber(transportation)

BothInFlightThenAnswered(a, b) ==
    \E i, j \in LookupEvents("getFlightRoute") :
        /\ i < j
        /\ trace[i].id = FlightNumberId(a)
        /\ trace[j].id = FlightNumberId(b)
        /\ \A k \in LookupEvents("routeResolved") \cup LookupEvents("routeRejected") : k > j
        /\ Cardinality(LookupEvents("routeResolved")) = 2
        /\ lookups = <<>>

ShowsRouteOf(flightNumber) ==
    /\ getFlightRoute(flightNumber) # None
    /\ flightRoute = getFlightRoute(flightNumber)[1]
    /\ flightValues.origin = flightRoute.origin
    /\ flightValues.destination = flightRoute.destination

C24_Latest ==
    \A a, b \in {"A1", "B2"} :
        (a # b /\ BothInFlightThenAnswered(a, b)) => ShowsRouteOf(b)

C24_LookupsSettleOnLatest == [][C24_IssueStep]_vars /\ []C24_Latest

====
